---- MODULE Spec2Model ----
(***************************************************************************)
(* Verification model of the span-labelling pipeline of src/lab.py and of  *)
(* the device manager, the identity manager and the access controller of   *)
(* src/zta_project.                                                        *)
(*                                                                         *)
(* Texts are sequences of one-character strings; offsets are 0-based and   *)
(* half-open as in the Python source, so text[s:e] is Slice(text, s, e).   *)
(*                                                                         *)
(* An intermediate result that is used more than once is bound with        *)
(*     CHOOSE r \in {F(x) : x \in {E}} : TRUE                               *)
(* which is F(E) with E evaluated once.                                    *)
(***************************************************************************)
EXTENDS Integers, Sequences, FiniteSets, TLC

VARIABLES
    pc,               \* which operation of the pipeline has run
    text,             \* the text unit handed to convert_entities_to_tuples
    doc,              \* token ranges of the text unit
    entities,         \* its candidate list, in input order
    group_entry,      \* accepted spans of the text unit
    spans_set,        \* ranges accepted directly
    skipped_entities, \* discard records appended by the resolver
    reason_count,     \* reasons tallied by the resolver, in order
    correctInaPage,   \* training-ready bucket of the text unit
    problemsInaPage,  \* problematic bucket of the text unit
    page_text,        \* the page handed to the matcher
    course_name,      \* the canonical value searched for, already cleaned
    course_list,      \* the catalog
    result,           \* matches returned by sliding_window_match
    start_no_space,   \* offset pair in the despaced page
    end_no_space,
    original,         \* the pair returned by map_index_to_original
    positions,        \* values assigned to current_position during the call
    searched,         \* the sliding-window search was entered in the call
    low_confidence_matches, \* the low-confidence records the call returns
    o_mark,           \* expected values of the fields of a course, "" if absent
    native_credit,
    m_mark,
    grade,
    order,            \* ordering hint for equal o_mark and native_credit
    start_idx,        \* the course span
    end_idx,
    current_page_matches_sorted, \* start offsets of the page's course spans
    course_details,   \* spans returned by extract_course_details_in_gap
    best_match_text,  \* the window text handed to trim_by_words
    best_trimmed_match, \* the text it returns
    raised,           \* the exception it raises, "" if none
    futures,          \* state of each document's task
    temp_dir,         \* content of each document's shard in TEMP_DIR
    corrected_file,   \* entries merged into the corrected store
    all_matches,      \* documents whose result the main thread collected
    completed_files,  \* its count of collected results
    main,             \* position of the thread in process_files_in_parallel
    listed,           \* shards the aggregation has listed and not yet removed
    temp_path,        \* the shard the aggregation works on, 0 if none
    combined_data,    \* entries the aggregation has read from the shards
    devices,          \* DeviceManager.devices: the registered device ids
    quarantined_devices, \* DeviceManager.quarantined_devices
    trust_score,      \* fields of the Device object
    is_compliant,
    compliance_checks,
    security_posture,
    patched,          \* patch_device was the last change made to the device
    call,             \* the last call on a manager and what it returned
    seen_courses,     \* match_courses_to_pages: accepted matches of the page
    examined,         \* matches of the page it has examined so far
    matches,          \* process_pdf_file: the matches not yet removed
    matches_copy,     \* the copy matches[:] the loop over a page walks
    match_index,      \* how many entries of the copy the loop has taken
    course_detail_info, \* what extract_course_details_in_gap returned last
    course_info,      \* the labelled spans of the page
    course_variations, \* what generate_course_variations returned
    pages,            \* match_courses_to_pages: the pages of the document
    course_names,     \* its courses, sorted
    course_index,     \* the course its outer loop is at
    page_number,      \* the page its inner loop is at
    all_low_confidence_matches, \* the low-confidence list it returns
    produced,         \* the low-confidence records its calls have returned
    errors_file,      \* discard records in training_data_prod_errors.json
    users,            \* IdentityManager.users: the registered user ids
    active_sessions,  \* IdentityManager.active_sessions, by session token
    enable_continuous_auth, \* IdentityManager.enable_continuous_auth
    now,              \* the last value datetime.now() returned, in minutes
    min_trust_score,  \* DeviceManager.min_trust_score
    policies,         \* AccessController.policies['block_quarantined_devices']
    applications      \* AccessController.applications: security level by id

varsResolve == <<text, doc, entities, group_entry, spans_set, skipped_entities,
                 reason_count, correctInaPage, problemsInaPage>>

varsMatch == <<course_name, course_list, result, start_no_space, end_no_space,
               original, positions, searched, low_confidence_matches>>

varsGap == <<o_mark, native_credit, m_mark, grade, order, start_idx, end_idx,
             current_page_matches_sorted, course_details>>

varsTrim == <<best_match_text, best_trimmed_match, raised>>

varsAgg == <<listed, temp_path, combined_data>>

varsPar == <<futures, temp_dir, corrected_file, all_matches, completed_files,
             main, varsAgg>>

varsZta == <<devices, quarantined_devices, trust_score, is_compliant,
             compliance_checks, security_posture, patched, call>>

varsPages == <<seen_courses, examined>>

varsInfo == <<matches, matches_copy, match_index, course_detail_info,
              course_info>>

varsLow == <<pages, course_names, course_index, page_number,
             all_low_confidence_matches, produced>>

varsAccess == <<users, active_sessions, enable_continuous_auth, now,
                min_trust_score, policies, applications>>

varsRest == <<varsInfo, course_variations, varsLow, errors_file, varsAccess>>

vars == <<pc, page_text, varsResolve, varsMatch, varsGap, varsTrim, varsPar,
          varsZta, varsPages, varsRest>>

(***************************************************************************)
(* Python string primitives                                                *)
(***************************************************************************)
Min(a, b) == IF a < b THEN a ELSE b

Max(a, b) == IF a > b THEN a ELSE b

\* text[i]
At(s, i) == s[i + 1]

\* text[a:b] for 0 <= a
Slice(s, a, b) == SubSeq(s, a + 1, Min(b, Len(s)))

\* str.strip() strips every whitespace character
IsSpace(c) == c \in {" ", "\n"}

RECURSIVE LStrip(_)
LStrip(s) == IF s # <<>> /\ IsSpace(Head(s)) THEN LStrip(Tail(s)) ELSE s

RECURSIVE RStrip(_)
RStrip(s) ==
    IF s # <<>> /\ IsSpace(s[Len(s)]) THEN RStrip(SubSeq(s, 1, Len(s) - 1))
    ELSE s

Strip(s) == LStrip(RStrip(s))

(***************************************************************************)
(* correctData: snap a range to the surrounding blanks                     *)
(***************************************************************************)
RECURSIVE WalkBack(_, _)
WalkBack(start, t) ==
    IF start > 0 /\ start < Len(t) /\ At(t, start - 1) # " "
    THEN WalkBack(start - 1, t)
    ELSE start

RECURSIVE WalkForward(_, _)
WalkForward(end, t) ==
    IF end < Len(t) /\ end > 0 /\ At(t, end) # " "
    THEN WalkForward(end + 1, t)
    ELSE end

correctData(start, end, t) ==
    LET sl == Slice(t, start, end)
        stripped == Len(sl) # Len(Strip(sl))
        leftSpaces == Len(sl) - Len(LStrip(sl))
        rightSpaces == Len(sl) - Len(RStrip(sl))
        s1 == IF stripped THEN start + leftSpaces ELSE start
        e1 == IF stripped THEN end - rightSpaces ELSE end
    IN  CHOOSE r \in {IF s2 <= e2 THEN <<s2, e2>> ELSE <<-1, -1>> :
                         s2 \in {WalkBack(s1, t)}, e2 \in {WalkForward(e1, t)}} : TRUE

(***************************************************************************)
(* convert_entities_to_tuples                                              *)
(***************************************************************************)
PRIORITY_LIST ==
    <<"university", "first_name", "last_name", "credential_name", "major",
      "college", "course", "country", "city", "state", "native_credit",
      "o_mark", "m_mark", "grade", "year", "semester", "total_cgpa">>

\* LABEL_PRIORITY.get(label, 0)
LABEL_PRIORITY(label) ==
    IF \E i \in 1..Len(PRIORITY_LIST) : PRIORITY_LIST[i] = label
    THEN LET i == CHOOSE j \in 1..Len(PRIORITY_LIST) : PRIORITY_LIST[j] = label
         IN  Len(PRIORITY_LIST) - (i - 1)
    ELSE 0

\* sorted(entities, key=lambda x: x[0]): a stable insertion sort on the start
RECURSIVE InsertByStart(_, _)
InsertByStart(sorted, x) ==
    IF sorted = <<>> THEN <<x>>
    ELSE IF sorted[Len(sorted)][1] <= x[1] THEN Append(sorted, x)
    ELSE CHOOSE r \in {Append(InsertByStart(front, x), sorted[Len(sorted)]) :
                          front \in {SubSeq(sorted, 1, Len(sorted) - 1)}} : TRUE

RECURSIVE SortByStart(_)
SortByStart(es) ==
    IF es = <<>> THEN <<>>
    ELSE CHOOSE r \in {InsertByStart(front, es[Len(es)]) :
                          front \in {SortByStart(SubSeq(es, 1, Len(es) - 1))}} : TRUE

Overlaps(s1, e1, s2, e2) == s1 < e2 /\ e1 > s2

MutRemoveFirst(seq, x) == seq

\* list.remove(x): drops the first element equal to x
RECURSIVE RemoveFirst(_, _)
RemoveFirst(seq, x) ==
    IF seq = <<>> THEN <<>>
    ELSE IF Head(seq) = x THEN Tail(seq)
    ELSE <<Head(seq)>> \o RemoveFirst(Tail(seq), x)

MutRemoveRange(seq, s, e) == seq

\* [(es, ee, el) for ... in group_entry if (es, ee) != (s, e)]
RECURSIVE RemoveRange(_, _, _)
RemoveRange(seq, s, e) ==
    IF seq = <<>> THEN <<>>
    ELSE IF Head(seq)[1] = s /\ Head(seq)[2] = e THEN RemoveRange(Tail(seq), s, e)
    ELSE <<Head(seq)>> \o RemoveRange(Tail(seq), s, e)

\* index of the first accepted span the new range overlaps, 0 if none
FirstOverlap(group, s, e) ==
    IF \E i \in 1..Len(group) : Overlaps(s, e, group[i][1], group[i][2])
    THEN CHOOSE i \in 1..Len(group) :
            /\ Overlaps(s, e, group[i][1], group[i][2])
            /\ \A j \in 1..(i - 1) : ~Overlaps(s, e, group[j][1], group[j][2])
    ELSE 0

\* same range: the new span replaces the accepted one
MutSameSpanReplaces(cur, old) == cur < old

SameSpanReplaces(cur, old) == cur > old

Tally(st, reason) == [st EXCEPT !.reason_count = Append(@, reason)]

Skip(st, reason, ent) ==
    [Tally(st, reason) EXCEPT
        !.skipped_entities = Append(@, [reason |-> reason, entity |-> ent])]

\* the conflict loop over group_entry (it stops at the first overlapped span)
\* followed by the direct-accept tail of the iteration
ResolveConflict(st, s, e, label, t) ==
    LET g == st.group_entry
        i == FirstOverlap(g, s, e)
        new == <<s, e, label>>
    IN  IF i # 0 THEN
            LET ex == g[i]
                es == ex[1]
                ee == ex[2]
                el == ex[3]
                cur == LABEL_PRIORITY(label)
                old == LABEL_PRIORITY(el)
                \* tail reached after a break that left entity_inside_another False
                Tail2(st2, reason) ==
                    IF <<s, e>> \notin st2.spans_set
                    THEN IF \E k \in 1..Len(st2.group_entry) :
                              Overlaps(s, e, st2.group_entry[k][1], st2.group_entry[k][2])
                         THEN Skip(Tally(st2, reason), <<"Overlapping entity">>, new)
                         ELSE [Tally(st2, reason) EXCEPT
                                  !.group_entry = Append(@, new),
                                  !.spans_set = @ \cup {<<s, e>>}]
                    ELSE Tally(Tally(st2, reason), <<"Duplicate entity">>)
                Replaced == [st EXCEPT !.group_entry = Append(RemoveFirst(g, ex), new)]
            IN  IF s = es /\ e = ee THEN
                    IF SameSpanReplaces(cur, old)
                    THEN Tally(Replaced, <<"Replaced (same span)", el, label>>)
                    ELSE Skip(st, <<"Skipped (same span)", label, el>>, new)
                ELSE IF s >= es /\ e <= ee THEN
                    Skip(st, <<"Skipping inside", label, el>>, new)
                ELSE IF es >= s /\ ee <= e THEN
                    Tally([st EXCEPT !.group_entry = Append(RemoveRange(g, es, ee), new)],
                          <<"Removed inside", el, label>>)
                ELSE IF cur > old THEN
                    Tail2(Replaced, <<"priority over", label, el>>)
                ELSE IF cur < old THEN
                    Skip(st, <<"priority over", el, label>>, new)
                ELSE IF (e - s) > (ee - es) THEN
                    Tail2(Replaced, <<"equal priority and greater length">>)
                ELSE
                    Skip(st, <<"equal priority and shorter or equal length">>, new)
        ELSE IF <<s, e>> \notin st.spans_set
             THEN [st EXCEPT !.group_entry = Append(@, new),
                             !.spans_set = @ \cup {<<s, e>>}]
             ELSE Tally(st, <<"Duplicate entity">>)

\* one iteration of the loop over entities_sorted
ResolveEntity(st, entity, t) ==
    LET start == entity[1]
        end == entity[2]
        label == entity[3]
        entity_text == Slice(t, start, end)
    IN  IF entity_text = <<" ">> THEN Tally(st, <<"empty spaces (-1)">>)
        ELSE IF label = "course" /\ Len(entity_text) <= 3
             THEN Tally(st, <<"Courses length less than 3 ">>)
        ELSE IF start >= Len(t) THEN Tally(st, <<"Invalid start index">>)
        ELSE CHOOSE r \in
                 {IF c[1] = -1 \/ c[2] = -1
                  THEN Tally(st, <<"Invalid start or end after correction">>)
                  ELSE ResolveConflict(st, c[1], c[2], label, t) :
                      c \in {correctData(start, end, t)}} : TRUE

RECURSIVE FoldEntities(_, _, _)
FoldEntities(st, es, t) ==
    IF es = <<>> THEN st
    ELSE CHOOSE r \in {FoldEntities(n, Tail(es), t) :
                          n \in {ResolveEntity(st, Head(es), t)}} : TRUE

convert_entities_to_tuples(es, t) ==
    CHOOSE r \in
        {FoldEntities(st0, entities_sorted, t) :
            st0 \in {[group_entry |-> <<>>, spans_set |-> {},
                      skipped_entities |-> <<>>, reason_count |-> <<>>]},
            entities_sorted \in {SortByStart(es)}} : TRUE

(***************************************************************************)
(* Boundary validation in process_pdf_file_and_correct                     *)
(***************************************************************************)
\* end of the run of blank (or of non-blank) characters that holds position i
RECURSIVE RunEnd(_, _, _)
RunEnd(t, i, blank) ==
    IF i < Len(t) /\ IsSpace(At(t, i)) = blank THEN RunEnd(t, i + 1, blank) ELSE i

RunStarts(t, blank) ==
    {i \in 0..(Len(t) - 1) :
        /\ IsSpace(At(t, i)) = blank
        /\ (i = 0 \/ IsSpace(At(t, i - 1)) # blank)}

\* token ranges of nlp.make_doc(text): runs of non-blank characters, and runs
\* of blanks other than the single " " that separates a word from what follows
WordTokens(t) == {<<a, RunEnd(t, a, FALSE)>> : a \in RunStarts(t, FALSE)}

BlankTokens(t) ==
    LET cut == {<<(IF a > 0 /\ At(t, a) = " " THEN a + 1 ELSE a), RunEnd(t, a, TRUE)>> :
                   a \in RunStarts(t, TRUE)}
    IN  {tk \in cut : tk[1] < tk[2]}

Tokens(t) == WordTokens(t) \cup BlankTokens(t)

\* starts.get(start_char) and ends.get(end_char) both succeed
Aligned(toks, s, e) ==
    /\ \E tk \in toks : tk[1] = s
    /\ \E tk \in toks : tk[2] = e

\* the aligned span (s, e) tags the token B-, I-, L- or U-
Tagged(tk, s, e) ==
    \/ tk[1] = s
    \/ tk[2] = e
    \/ (tk[1] > s /\ tk[2] < e)

MutHasIssue(toks, entry) == FALSE

\* '-' in offsets_to_biluo_tags(doc, entry): a token holds a character of some
\* span of the entry and no aligned span of the entry tags it
hasIssue(toks, entry) ==
    \E tagged \in {{tk \in toks : \E k \in 1..Len(entry) :
                       /\ Aligned(toks, entry[k][1], entry[k][2])
                       /\ Tagged(tk, entry[k][1], entry[k][2])}} :
        \E tk \in toks \ tagged :
            \E k \in 1..Len(entry) :
                entry[k][1] < tk[2] /\ tk[1] < entry[k][2]

add_entity_text(t, entry) ==
    [k \in 1..Len(entry) |->
        <<entry[k][1], entry[k][2], entry[k][3], Slice(t, entry[k][1], entry[k][2])>>]

(***************************************************************************)
(* Inputs of the conflict resolver                                         *)
(***************************************************************************)
MaxEntities == 3

Texts ==
    {<<"a", " ", "b", " ", "c">>,
     <<"a", " ", " ">>,
     <<"\n", "a", "b">>}

Labels == {"credential_name", "course", "grade"}

Candidates(t) ==
    {c \in (0..Len(t)) \X (0..(Len(t) + 1)) \X Labels : c[1] <= c[2]}

(***************************************************************************)
(* The loop body of process_pdf_file_and_correct for one text unit         *)
(***************************************************************************)
\* the resolver has no input
NoResolveInput ==
    /\ text = <<>>
    /\ doc = {}
    /\ entities = <<>>
    /\ group_entry = <<>>
    /\ spans_set = {}
    /\ skipped_entities = <<>>
    /\ reason_count = <<>>
    /\ correctInaPage = <<>>
    /\ problemsInaPage = <<>>

\* the gap extractor has no input
NoGapInput ==
    /\ o_mark = <<>>
    /\ native_credit = <<>>
    /\ m_mark = <<>>
    /\ grade = <<>>
    /\ order = <<>>
    /\ start_idx = 0
    /\ end_idx = 0
    /\ current_page_matches_sorted = <<>>
    /\ course_details = <<>>

\* the trimmer has no input
NoTrimInput ==
    /\ best_match_text = <<>>
    /\ best_trimmed_match = <<>>
    /\ raised = ""

\* no document is being processed
NoParInput ==
    /\ futures = <<>>
    /\ temp_dir = <<>>
    /\ corrected_file = {}
    /\ all_matches = {}
    /\ completed_files = 0
    /\ main = "idle"
    /\ listed = {}
    /\ temp_path = 0
    /\ combined_data = {}

\* no device manager exists
NoZtaInput ==
    /\ devices = {}
    /\ quarantined_devices = {}
    /\ trust_score = 0
    /\ is_compliant = FALSE
    /\ compliance_checks = <<>>
    /\ security_posture = ""
    /\ patched = FALSE
    /\ call = <<>>

\* no page is being merged
NoPagesInput ==
    /\ seen_courses = <<>>
    /\ examined = 0

\* no page is being labelled
NoInfoInput ==
    /\ matches = <<>>
    /\ matches_copy = <<>>
    /\ match_index = 0
    /\ course_detail_info = <<>>
    /\ course_info = <<>>

\* the operations modelled further on have no input
\* no document is being matched
NoLowInput ==
    /\ pages = <<>>
    /\ course_names = <<>>
    /\ course_index = 0
    /\ page_number = 0
    /\ all_low_confidence_matches = <<>>
    /\ produced = {}

\* IdentityManager(), DeviceManager() and AccessController() as constructed
NoAccessInput ==
    /\ users = {}
    /\ active_sessions = <<>>
    /\ enable_continuous_auth = TRUE
    /\ now = 0
    /\ min_trust_score = 70
    /\ policies = TRUE
    /\ applications = <<>>

NoRestInput ==
    /\ NoInfoInput
    /\ course_variations = {}
    /\ NoLowInput
    /\ errors_file = <<>>
    /\ NoAccessInput

\* the matcher has no input
NoMatchInput ==
    /\ course_name = <<>>
    /\ course_list = {}
    /\ result = <<>>
    /\ start_no_space = 0
    /\ end_no_space = 0
    /\ original = <<0, 0>>
    /\ positions = <<>>
    /\ searched = FALSE
    /\ low_confidence_matches = <<>>

InitResolve ==
    /\ pc = "loaded"
    /\ page_text = <<>>
    /\ NoMatchInput
    /\ NoGapInput
    /\ NoTrimInput
    /\ NoParInput
    /\ NoZtaInput
    /\ NoPagesInput
    /\ NoRestInput
    /\ text \in Texts
    /\ \E n \in 0..MaxEntities : entities \in [1..n -> Candidates(text)]
    /\ doc = {}
    /\ group_entry = <<>>
    /\ spans_set = {}
    /\ skipped_entities = <<>>
    /\ reason_count = <<>>
    /\ correctInaPage = <<>>
    /\ problemsInaPage = <<>>

ProcessTextUnit ==
    /\ pc = "loaded"
    /\ \E st \in {convert_entities_to_tuples(entities, text)}, toks \in {Tokens(text)} :
         \E issue \in {st.group_entry # <<>> /\ hasIssue(toks, st.group_entry)} :
            /\ doc' = toks
            /\ group_entry' = st.group_entry
            /\ spans_set' = st.spans_set
            /\ skipped_entities' = st.skipped_entities
            /\ reason_count' = st.reason_count
            /\ correctInaPage' = (IF issue THEN <<>> ELSE st.group_entry)
            /\ problemsInaPage' =
                  (IF issue THEN add_entity_text(text, st.group_entry) ELSE <<>>)
    /\ pc' = "validated"
    /\ UNCHANGED <<text, entities, page_text, varsMatch, varsGap, varsTrim,
                   varsPar, varsZta, varsPages, varsRest>>

NextResolve == ProcessTextUnit

SpecResolve == InitResolve /\ [][NextResolve]_vars

\* the snapped range of a candidate, <<-1, -1>> when it is filtered out before
\* the conflict loop
SnappedRange(c, t) ==
    IF \/ Slice(t, c[1], c[2]) = <<" ">>
       \/ (c[3] = "course" /\ Len(Slice(t, c[1], c[2])) <= 3)
       \/ c[1] >= Len(t)
    THEN <<-1, -1>>
    ELSE correctData(c[1], c[2], t)

InGroup(s, e, label) ==
    \E k \in 1..Len(group_entry) : group_entry[k] = <<s, e, label>>

\* C1: no two distinct accepted spans of a text unit overlap
NoOverlapInGroup ==
    \A i, j \in 1..Len(group_entry) :
        i # j => ~Overlaps(group_entry[i][1], group_entry[i][2],
                           group_entry[j][1], group_entry[j][2])

\* C1 witness: three candidates, two of them accepted and one discarded for
\* overlapping an accepted span
NoOverlapWitness ==
    /\ pc = "validated"
    /\ Len(entities) = 3
    /\ Len(group_entry) = 2
    /\ \E k \in 1..Len(skipped_entities) :
          skipped_entities[k].reason[1] = "priority over"

\* two candidates with the same range and labels of different priority
SameRangePair(i, j) ==
    /\ i # j
    /\ entities[i][1] = entities[j][1]
    /\ entities[i][2] = entities[j][2]
    /\ LABEL_PRIORITY(entities[i][3]) > LABEL_PRIORITY(entities[j][3])

AloneOnRange(i, j, r) ==
    \A k \in 1..Len(entities) :
        (k # i /\ k # j) =>
            LET o == SnappedRange(entities[k], text)
            IN  o[1] = -1 \/ (~Overlaps(o[1], o[2], r[1], r[2]) /\ o # r)

SpanFails(toks, sp) ==
    /\ ~Aligned(toks, sp[1], sp[2])
    /\ \E tk \in toks : sp[1] < tk[2] /\ tk[1] < sp[2]

InBucket(bucket, sp) ==
    \E k \in 1..Len(bucket) :
        bucket[k][1] = sp[1] /\ bucket[k][2] = sp[2] /\ bucket[k][3] = sp[3]

EmptyResolver ==
    [group_entry |-> <<>>, spans_set |-> {}, skipped_entities |-> <<>>,
     reason_count |-> <<>>]

entities_sorted == SortByStart(entities)

\* the resolver when it comes to the k-th candidate of entities_sorted
Before(k) == FoldEntities(EmptyResolver, SubSeq(entities_sorted, 1, k - 1), text)

HasRange(group, r) ==
    \E i \in 1..Len(group) : group[i][1] = r[1] /\ group[i][2] = r[2]

HasSpan(group, sp) == \E i \in 1..Len(group) : group[i] = sp

\* the range inner lies within the range outer
Encloses(outer, inner) == outer[1] <= inner[1] /\ inner[2] <= outer[2]

\* P(before, candidate, snapped range) holds for every candidate that reaches
\* the conflict loop
EveryConflictStep(P(_, _, _)) ==
    pc = "validated" =>
        \A k \in 1..Len(entities) :
            \E before \in {Before(k)}, r \in {SnappedRange(entities_sorted[k], text)} :
                r[1] # -1 => P(before, entities_sorted[k], r)

\* after the step, of a new range r and an accepted range x of which one
\* encloses the other, only the enclosing one is accepted
ContainmentStep(before, ent, r) ==
    \E after \in {ResolveEntity(before, ent, text).group_entry} :
        \A i \in 1..Len(before.group_entry) :
            LET x == <<before.group_entry[i][1], before.group_entry[i][2]>>
            IN  (x # r /\ (Encloses(x, r) \/ Encloses(r, x))) =>
                    IF Encloses(x, r)
                    THEN ~HasRange(after, r) /\ HasRange(after, x)
                    ELSE ~HasRange(after, x) /\ HasRange(after, r)

\* C15: when a new snapped range and an accepted range differ and one encloses
\* the other, the enclosed one is not in the accepted list after the step and
\* the enclosing one is
ContainedSpanLoses == EveryConflictStep(ContainmentStep)

ContainmentStepNonEmpty(before, ent, r) ==
    \E after \in {ResolveEntity(before, ent, text).group_entry} :
        \A i \in 1..Len(before.group_entry) :
            LET x == <<before.group_entry[i][1], before.group_entry[i][2]>>
            IN  (/\ x # r
                 /\ x[1] < x[2]
                 /\ r[1] < r[2]
                 /\ (Encloses(x, r) \/ Encloses(r, x))) =>
                    IF Encloses(x, r)
                    THEN ~HasRange(after, r) /\ HasRange(after, x)
                    ELSE ~HasRange(after, x) /\ HasRange(after, r)

\* the part of C15 that holds: the same for two ranges that are not empty
ContainedSpanLosesNonEmpty == EveryConflictStep(ContainmentStepNonEmpty)

\* the new range r and the accepted span x overlap and neither encloses the
\* other
PartialOverlap(r, x) ==
    /\ Overlaps(r[1], r[2], x[1], x[2])
    /\ ~Encloses(x, r)
    /\ ~Encloses(r, x)

\* the rule of the claim: higher priority, then strictly greater length
NewWins(label, r, x) ==
    \/ LABEL_PRIORITY(label) > LABEL_PRIORITY(x[3])
    \/ /\ LABEL_PRIORITY(label) = LABEL_PRIORITY(x[3])
       /\ (r[2] - r[1]) > (x[2] - x[1])

PartialOverlapStep(before, ent, r) ==
    \E after \in {ResolveEntity(before, ent, text).group_entry} :
        \A i \in 1..Len(before.group_entry) :
            LET x == before.group_entry[i]
                new == <<r[1], r[2], ent[3]>>
            IN  PartialOverlap(r, x) =>
                    IF NewWins(ent[3], r, x)
                    THEN HasSpan(after, new) /\ ~HasSpan(after, x)
                    ELSE ~HasSpan(after, new) /\ HasSpan(after, x)

\* C16: when a new snapped span overlaps an accepted span and neither
\* encloses the other, exactly one of the two is accepted after the step: the
\* one with the higher label priority, on equal priority the strictly longer
\* one, and otherwise the accepted one
PartialOverlapByPriority == EveryConflictStep(PartialOverlapStep)

\* the k-th candidate overlaps an accepted span partially
PartialOverlapAt(k, wins) ==
    \E before \in {Before(k)}, r \in {SnappedRange(entities_sorted[k], text)} :
        /\ r[1] # -1
        /\ \E i \in 1..Len(before.group_entry) :
              /\ PartialOverlap(r, before.group_entry[i])
              /\ NewWins(entities_sorted[k][3], r, before.group_entry[i]) = wins
              /\ LABEL_PRIORITY(entities_sorted[k][3])
                     # LABEL_PRIORITY(before.group_entry[i][3])

\* C16 witness: a text unit in which one candidate evicts a partially
\* overlapped span of lower priority and another candidate is discarded for a
\* partially overlapped span of higher priority
PartialOverlapWitness ==
    /\ pc = "validated"
    /\ \E k \in 1..Len(entities) : PartialOverlapAt(k, TRUE)
    /\ \E k \in 1..Len(entities) : PartialOverlapAt(k, FALSE)

\* a span lies on blank boundaries of the text
OnBoundaries(sp) ==
    /\ sp[1] <= sp[2]
    /\ (sp[1] = 0 \/ IsSpace(At(text, sp[1] - 1)))
    /\ (sp[2] = Len(text) \/ (sp[2] < Len(text) /\ IsSpace(At(text, sp[2]))))

\* C17: every accepted span starts at 0 or after a blank, ends at the end of
\* the text or before a blank, and has start <= end
SnappedToBoundaries ==
    pc = "validated" => \A i \in 1..Len(group_entry) : OnBoundaries(group_entry[i])

\* the part of C17 that holds: accepted spans that are not empty, when no
\* candidate ends beyond the text
SnappedToBoundariesInText ==
    (pc = "validated" /\ \A k \in 1..Len(entities) : entities[k][2] <= Len(text)) =>
        \A i \in 1..Len(group_entry) :
            group_entry[i][1] < group_entry[i][2] => OnBoundaries(group_entry[i])

\* candidates that are to contribute nothing: an empty range, a range of
\* blanks only, a course of 3 characters or fewer
Excluded(c) ==
    \E entity_text \in {Slice(text, c[1], c[2])} :
        \/ c[1] = c[2]
        \/ Strip(entity_text) = <<>>
        \/ (c[3] = "course" /\ Len(entity_text) <= 3)

\* C18: a candidate with an empty range, with a range of blanks only, or a
\* course of 3 characters or fewer leaves the accepted list as it was
ExcludedContributeNothing ==
    pc = "validated" =>
        \A k \in 1..Len(entities) :
            Excluded(entities_sorted[k]) =>
                \E before \in {Before(k)} :
                    ResolveEntity(before, entities_sorted[k], text).group_entry
                        = before.group_entry

\* the part of C18 that holds: a range that is one space, and a course of 3
\* characters or fewer, leave the accepted list as it was
ShortCourseContributesNothing ==
    pc = "validated" =>
        \A k \in 1..Len(entities) :
            \E c \in {entities_sorted[k]} :
                (\/ Slice(text, c[1], c[2]) = <<" ">>
                 \/ (c[3] = "course" /\ Len(Slice(text, c[1], c[2])) <= 3)) =>
                    \E before \in {Before(k)} :
                        ResolveEntity(before, c, text).group_entry = before.group_entry

\* the audit of one step: a candidate that the step accepts adds no discard
\* record, and a candidate that it does not accept adds to the tally
AuditStep(before, ent) ==
    \E after \in {ResolveEntity(before, ent, text)},
       r \in {SnappedRange(ent, text)} :
        IF /\ r[1] # -1
           /\ HasSpan(after.group_entry, <<r[1], r[2], ent[3]>>)
           /\ ~HasSpan(before.group_entry, <<r[1], r[2], ent[3]>>)
        THEN after.skipped_entities = before.skipped_entities
        ELSE Len(after.reason_count) > Len(before.reason_count)

\* C19: every candidate that a step does not accept is counted in the reason
\* tally, and a candidate that a step accepts is not appended to the discard
\* records
AuditExact ==
    pc = "validated" =>
        \A k \in 1..Len(entities) :
            \E before \in {Before(k)} : AuditStep(before, entities_sorted[k])

\* the part of C19 that holds: every candidate that a step does not accept is
\* counted in the reason tally
DiscardsAreTallied ==
    pc = "validated" =>
        \A k \in 1..Len(entities) :
            \E before \in {Before(k)}, ent \in {entities_sorted[k]} :
                \E after \in {ResolveEntity(before, ent, text)},
                   r \in {SnappedRange(ent, text)} :
                    (\/ r[1] = -1
                     \/ ~HasSpan(after.group_entry, <<r[1], r[2], ent[3]>>)) =>
                        Len(after.reason_count) > Len(before.reason_count)

(***************************************************************************)
(* map_index_to_original                                                   *)
(***************************************************************************)
\* the letters of the texts used here
UpperCase == <<"A", "B", "E", "F", "I", "L", "V", "X", "Z">>

LowerCase == <<"a", "b", "e", "f", "i", "l", "v", "x", "z">>

\* str.lower() and str.upper() of a character
Lower(c) ==
    IF \E i \in 1..Len(UpperCase) : UpperCase[i] = c
    THEN LowerCase[CHOOSE i \in 1..Len(UpperCase) : UpperCase[i] = c]
    ELSE c

Upper(c) ==
    IF \E i \in 1..Len(LowerCase) : LowerCase[i] = c
    THEN UpperCase[CHOOSE i \in 1..Len(LowerCase) : LowerCase[i] = c]
    ELSE c

LowerSeq(s) == [i \in 1..Len(s) |-> Lower(s[i])]

UpperSeq(s) == [i \in 1..Len(s) |-> Upper(s[i])]

\* s.replace(" ", "")
NoSpace(s) == SelectSeq(s, LAMBDA c : c # " ")

\* the while loop: p is page_text_pointer, q is page_text_no_space_pointer
RECURSIVE MapLoop(_, _, _, _, _, _)
MapLoop(t, s, e, p, q, original_start) ==
    IF p >= Len(t) THEN <<original_start, 0>>
    ELSE IF At(t, p) # " "
         THEN LET os == IF q = s THEN p ELSE original_start
              IN  IF q = e THEN <<os, p - 1>>
                  ELSE MapLoop(t, s, e, p + 1, q + 1, os)
         ELSE MapLoop(t, s, e, p + 1, q, original_start)

map_index_to_original(t, t_no_space, s, e) == MapLoop(t, s, e, 0, 0, 0)

(***************************************************************************)
(* Inputs of the matcher                                                   *)
(***************************************************************************)
MaxPageLen == 5

PageAlphabet == {"a", "b", " "}

\* pages with capitals, a hyphen and "lab"
PickedPageTexts ==
    {<<"A", "b", " ", "a">>,
     <<"b", " ", "A", "B">>,
     <<"a", "-", "b", " ", "a", "b">>,
     <<"a", "b", " ", "a", "-", "b">>,
     <<"a", " ", "l", "a", "b">>,
     <<"a", " ", "l", "a", "b", " ", "a", " ", "b">>,
     <<"a", "b", " ", "a", " ", "L", "a", "b">>}

\* every page over the alphabet, and the pages above
PageTexts ==
    UNION {[1..n -> PageAlphabet] : n \in 1..MaxPageLen} \cup PickedPageTexts

(***************************************************************************)
(* The index mapper on its own                                             *)
(***************************************************************************)
InitMap ==
    /\ pc = "loaded"
    /\ page_text \in PageTexts
    /\ \E n \in {Len(NoSpace(page_text))} :
          /\ start_no_space \in 0..n
          /\ end_no_space \in 0..n
          /\ start_no_space < end_no_space
    /\ course_name = <<>>
    /\ course_list = {}
    /\ result = <<>>
    /\ original = <<0, 0>>
    /\ positions = <<>>
    /\ searched = FALSE
    /\ low_confidence_matches = <<>>
    /\ NoResolveInput
    /\ NoGapInput
    /\ NoTrimInput
    /\ NoParInput
    /\ NoZtaInput
    /\ NoPagesInput
    /\ NoRestInput

MapIndex ==
    /\ pc = "loaded"
    /\ original' = map_index_to_original(page_text, NoSpace(page_text),
                                         start_no_space, end_no_space)
    /\ pc' = "mapped"
    /\ UNCHANGED <<varsResolve, varsGap, varsTrim, varsPar, varsZta, varsPages, varsRest,
                   page_text, course_name, course_list, result, start_no_space,
                   end_no_space, positions, searched, low_confidence_matches>>

NextMap == MapIndex

SpecMap == InitMap /\ [][NextMap]_vars

\* the despacing transform on an offset: the number of non-space characters
\* of the page before it
Despaced(t, k) == Len(NoSpace(Slice(t, 0, k)))

\* C8: an offset pair of the despaced page mapped to the page and forward
\* again through the despacing transform is the same pair
DespacedRoundTrip ==
    pc = "mapped" =>
        /\ Despaced(page_text, original[1]) = start_no_space
        /\ Despaced(page_text, original[2]) = end_no_space

Digits == {"0", "1", "2", "3", "4", "5", "6", "7", "8", "9"}

\* str.isdigit()
isdigit(s) == s # <<>> /\ \A i \in 1..Len(s) : s[i] \in Digits

(***************************************************************************)
(* fuzz.ratio                                                              *)
(***************************************************************************)
\* the length of the longest common prefix of a[i:] and b[j:]
RECURSIVE CommonPrefix(_, _, _, _)
CommonPrefix(a, b, i, j) ==
    IF i < Len(a) /\ j < Len(b) /\ At(a, i) = At(b, j)
    THEN 1 + CommonPrefix(a, b, i + 1, j + 1)
    ELSE 0

\* SequenceMatcher.find_longest_match: the longest common block <<i, j, k>>,
\* a[i:i+k] = b[j:j+k], the earliest in a among the longest, the earliest in
\* b among those; k = 0 when a and b share no character
LongestMatch(a, b) ==
    LET size == [x \in (0..(Len(a) - 1)) \X (0..(Len(b) - 1))
                    |-> CommonPrefix(a, b, x[1], x[2])]
        k == CHOOSE n \in 0..Min(Len(a), Len(b)) :
                 /\ \A x \in DOMAIN size : size[x] <= n
                 /\ (n = 0 \/ \E x \in DOMAIN size : size[x] = n)
        i == CHOOSE m \in 0..Len(a) :
                 /\ \E x \in DOMAIN size : x[1] = m /\ size[x] = k
                 /\ \A x \in DOMAIN size : size[x] = k => m <= x[1]
        j == CHOOSE m \in 0..Len(b) :
                 /\ size[<<i, m>>] = k
                 /\ \A n \in 0..(m - 1) : size[<<i, n>>] # k
    IN  IF a = <<>> \/ b = <<>> \/ k = 0 THEN <<0, 0, 0>> ELSE <<i, j, k>>

\* the number of characters in SequenceMatcher.get_matching_blocks
RECURSIVE MatchingChars(_, _)
MatchingChars(a, b) ==
    LET blk == LongestMatch(a, b)
    IN  IF blk[3] = 0 THEN 0
        ELSE blk[3]
             + MatchingChars(Slice(a, 0, blk[1]), Slice(b, 0, blk[2]))
             + MatchingChars(Slice(a, blk[1] + blk[3], Len(a)),
                             Slice(b, blk[2] + blk[3], Len(b)))

\* int(round(n / d)) for n >= 0 and d > 0; Python rounds a half to even
RoundDiv(n, d) ==
    LET q == n \div d
        r == n % d
    IN  IF 2 * r > d \/ (2 * r = d /\ q % 2 = 1) THEN q + 1 ELSE q

\* fuzz.ratio(s1, s2): 100 for equal strings, 0 when one is empty, otherwise
\* 100 * 2 * M / T rounded
ratio(s1, s2) ==
    IF s1 = s2 THEN 100
    ELSE IF s1 = <<>> \/ s2 = <<>> THEN 0
    ELSE RoundDiv(200 * MatchingChars(s1, s2), Len(s1) + Len(s2))

(***************************************************************************)
(* trim_by_words                                                           *)
(***************************************************************************)
\* s.split()
RECURSIVE split(_)
split(s) ==
    IF LStrip(s) = <<>> THEN <<>>
    ELSE LET t == LStrip(s)
             n == RunEnd(t, 0, FALSE)
         IN  <<Slice(t, 0, n)>> \o split(Slice(t, n, Len(t)))

\* ' '.join(words)
RECURSIVE join(_)
join(words) ==
    IF words = <<>> THEN <<>>
    ELSE IF Len(words) = 1 THEN words[1]
    ELSE words[1] \o <<" ">> \o join(Tail(words))

\* the entries of the English stop word list, with 'and', that the texts
\* used here can hold
stop_words ==
    {<<"i", "n">>, <<"o", "f">>, <<"t", "h", "e">>, <<"a", "n", "d">>,
     <<"a">>, <<"a", "n">>, <<"i">>, <<"b", "e">>}

RECURSIVE PopStopWords(_)
PopStopWords(words) ==
    IF words # <<>> /\ LowerSeq(words[1]) \in stop_words
                    /\ LowerSeq(words[1]) # <<"t", "h", "e">>
    THEN PopStopWords(Tail(words))
    ELSE words

trim_leading_stopwords(t) == join(PopStopWords(split(t)))

roman_to_numeral ==
    <<<<<<"I">>, <<"1">>>>,
      <<<<"I", "I">>, <<"2">>>>,
      <<<<"I", "I", "I">>, <<"3">>>>,
      <<<<"I", "V">>, <<"4">>>>,
      <<<<"V">>, <<"5">>>>,
      <<<<"V", "I">>, <<"6">>>>,
      <<<<"V", "I", "I">>, <<"7">>>>,
      <<<<"V", "I", "I", "I">>, <<"8">>>>,
      <<<<"I", "X">>, <<"9">>>>,
      <<<<"X">>, <<"1", "0">>>>,
      <<<<"X", "I">>, <<"1", "1">>>>,
      <<<<"X", "I", "I">>, <<"1", "2">>>>,
      <<<<"X", "I", "I", "I">>, <<"1", "3">>>>,
      <<<<"X", "I", "V">>, <<"1", "4">>>>,
      <<<<"X", "V">>, <<"1", "5">>>>,
      <<<<"X", "V", "I">>, <<"1", "6">>>>,
      <<<<"X", "V", "I", "I">>, <<"1", "7">>>>,
      <<<<"X", "V", "I", "I", "I">>, <<"1", "8">>>>,
      <<<<"X", "I", "X">>, <<"1", "9">>>>,
      <<<<"X", "X">>, <<"2", "0">>>>>>

is_roman(word) ==
    \A i \in 1..Len(word) : Upper(word[i]) \in {"I", "V", "X", "L", "C", "D", "M"}

\* int(word) succeeds; the words used here carry no sign and no blank
is_numeral(word) == isdigit(word)

roman_to_numeral_converter(roman) ==
    LET s == UpperSeq(roman)
        n == Len(roman_to_numeral)
    IN  IF \E i \in 1..n : roman_to_numeral[i][1] = s
        THEN roman_to_numeral[CHOOSE i \in 1..n : roman_to_numeral[i][1] = s][2]
        ELSE IF \E i \in 1..n : roman_to_numeral[i][2] = s
        THEN roman_to_numeral[CHOOSE i \in 1..n : roman_to_numeral[i][2] = s][1]
        ELSE s

\* str(int(word)) of a word of digits
RECURSIVE IntStr(_)
IntStr(word) ==
    IF Len(word) > 1 /\ word[1] = "0" THEN IntStr(Tail(word)) ELSE word

\* words[:-1]
DropLast(words) == SubSeq(words, 1, Len(words) - 1)

\* words[1:]
DropFirst(words) == SubSeq(words, 2, Len(words))

\* s[-2:]
LastTwo(s) == SubSeq(s, Max(1, Len(s) - 1), Len(s))

HasPlus(s) == \E i \in 1..Len(s) : s[i] = "+"

\* course_name_part2 after the numeral normalization
NormalizedPart2(course_name_part2, best_match_part2) ==
    IF \/ (/\ ~is_roman(course_name_part2) /\ ~is_numeral(course_name_part2)
           /\ ~is_roman(best_match_part2) /\ ~is_numeral(best_match_part2))
       \/ best_match_part2 = course_name_part2
       \/ (/\ (is_numeral(course_name_part2) \/ is_roman(course_name_part2))
           /\ ~is_numeral(best_match_part2) /\ ~is_roman(best_match_part2))
       \/ (/\ ~is_numeral(course_name_part2) /\ ~is_roman(course_name_part2)
           /\ (is_numeral(best_match_part2) \/ is_roman(best_match_part2)))
    THEN course_name_part2
    ELSE IF is_numeral(best_match_part2) /\ is_roman(course_name_part2)
    THEN roman_to_numeral_converter(course_name_part2)
    ELSE IF is_roman(best_match_part2) /\ is_numeral(course_name_part2)
    THEN roman_to_numeral_converter(IntStr(course_name_part2))
    ELSE course_name_part2

\* the trimming by the scores of the boundary words
TrimByScores(course_name_part1, course_name_part2, words) ==
    LET score_part1 == ratio(LowerSeq(course_name_part1), LowerSeq(words[1]))
        score_part2 == ratio(LowerSeq(course_name_part2),
                             LowerSeq(words[Len(words)]))
        w1 == IF score_part1 = 0 THEN DropFirst(words) ELSE words
    IN  IF score_part2 = 0 THEN DropLast(w1)
        ELSE IF score_part1 < 50 /\ Len(w1) > 1
        THEN IF ratio(LowerSeq(course_name_part1),
                      LowerSeq(join(SubSeq(w1, 1, 2)))) < 50
             THEN DropFirst(w1)
             ELSE w1
        ELSE IF score_part2 < 50 /\ Len(w1) > 1
        THEN IF ratio(LowerSeq(course_name_part2),
                      LowerSeq(join(SubSeq(w1, Len(w1) - 1, Len(w1))))) < 50
             THEN DropLast(w1)
             ELSE w1
        ELSE w1

\* the text returned, or the exception raised
trim_by_words(course, match_text) ==
    LET stripped == trim_leading_stopwords(match_text)
        course_words == split(course)
        best_match_words == split(stripped)
        w1 == IF \/ (/\ HasPlus(Slice(best_match_words[1], 0, 2))
                     /\ At(course, 0) # "+")
                 \/ (Len(best_match_words[1]) = 1 /\ Len(course_words[1]) > 1)
              THEN DropFirst(best_match_words)
              ELSE best_match_words
        w2 == IF HasPlus(LastTwo(w1[Len(w1)])) /\ At(course, Len(course) - 1) # "+"
              THEN DropLast(w1)
              ELSE w1
    IN  IF Len(course_words) <= 1 \/ Len(best_match_words) <= 1
        THEN [value |-> stripped, raised |-> ""]
        ELSE IF w2 = <<>>
        THEN [value |-> <<>>, raised |-> "IndexError"]
        ELSE [value |-> join(TrimByScores(
                                course_words[1],
                                NormalizedPart2(course_words[Len(course_words)],
                                                w2[Len(w2)]),
                                w2)),
              raised |-> ""]

(***************************************************************************)
(* generate_course_variations                                              *)
(***************************************************************************)
\* s.replace(old, new) for a one-character old
RECURSIVE Replace(_, _, _)
Replace(s, old, new) ==
    IF s = <<>> THEN <<>>
    ELSE (IF Head(s) = old THEN new ELSE <<Head(s)>>) \o Replace(Tail(s), old, new)

\* a character of the class \w among the characters of the texts used here
IsWordChar(c) ==
    c \notin {" ", "\n", "-", "+", "&", ".", ",", "(", ")", "'"}

\* sub in s
Contains(s, sub) ==
    \E i \in 0..(Len(s) - Len(sub)) : Slice(s, i, i + Len(sub)) = sub

\* s.replace(old, new) for a string old
RECURSIVE ReplaceStr(_, _, _)
ReplaceStr(s, old, new) ==
    IF Len(s) < Len(old) \/ old = <<>> THEN s
    ELSE IF SubSeq(s, 1, Len(old)) = old
         THEN new \o ReplaceStr(SubSeq(s, Len(old) + 1, Len(s)), old, new)
         ELSE <<Head(s)>> \o ReplaceStr(Tail(s), old, new)

\* re.sub(r'\b' + roman + r'\b', numeral, s, flags=re.IGNORECASE) from
\* offset i on
RECURSIVE SubWord(_, _, _, _)
SubWord(roman, numeral, s, i) ==
    IF i + Len(roman) > Len(s) THEN Slice(s, i, Len(s))
    ELSE IF /\ UpperSeq(Slice(s, i, i + Len(roman))) = roman
            /\ (i = 0 \/ ~IsWordChar(At(s, i - 1)))
            /\ (i + Len(roman) = Len(s) \/ ~IsWordChar(At(s, i + Len(roman))))
         THEN numeral \o SubWord(roman, numeral, s, i + Len(roman))
         ELSE <<At(s, i)>> \o SubWord(roman, numeral, s, i + 1)

\* s.endswith(suffix)
EndsWith(s, suffix) ==
    /\ Len(suffix) <= Len(s)
    /\ Slice(s, Len(s) - Len(suffix), Len(s)) = suffix

\* s.rfind(sub)
rfind(s, sub) ==
    LET at == {i \in 0..(Len(s) - Len(sub)) : Slice(s, i, i + Len(sub)) = sub}
    IN  IF at = {} THEN -1 ELSE CHOOSE i \in at : \A j \in at : j <= i

\* course_name[-4:] and course_name[:-4]
last_4_chars(course) == Slice(course, Max(0, Len(course) - 4), Len(course))

ButLast4(course) == Slice(course, 0, Max(0, Len(course) - 4))

\* the dictionary roman_to_numeral of generate_course_variations, I to VIII
\* in the order of its items, and the same sorted by the length of the
\* Roman numeral, the longest first
numeral_pairs == SubSeq(roman_to_numeral, 1, 8)

roman_to_numeral_sorted ==
    <<numeral_pairs[8], numeral_pairs[3], numeral_pairs[7], numeral_pairs[2],
      numeral_pairs[4], numeral_pairs[6], numeral_pairs[1], numeral_pairs[5]>>

\* numeral_to_roman sorted by the numeral, the largest first
numeral_to_roman_sorted == [i \in 1..8 |-> numeral_pairs[9 - i]]

\* the body of the loops over roman_to_numeral and over numeral_to_roman,
\* which both substitute the numeral for the Roman numeral as a whole word
SubstitutedVariants(course, roman, numeral) ==
    LET numeral_course_names == SubWord(roman, numeral, course, 0)
        words == split(numeral_course_names)
        course_name_no_space_hyphen ==
            join(DropLast(words)) \o NoSpace(words[Len(words)])
    IN  {LowerSeq(numeral_course_names)}
        \cup (IF Contains(last_4_chars(course), roman)
              THEN {LowerSeq(course_name_no_space_hyphen),
                    Replace(LowerSeq(course_name_no_space_hyphen), "-", <<>>)}
              ELSE {})

\* the index looked up by rfind in the upper-case name: that of the numeral
\* when the last four characters end with it, else that of the Roman numeral
EndIndex(name, last_4, roman, numeral) ==
    IF EndsWith(last_4, numeral) THEN rfind(UpperSeq(name), numeral)
    ELSE rfind(UpperSeq(name), roman)

\* name with a space put in before index
Spaced(name, index) ==
    Slice(name, 0, index) \o <<" ">> \o Slice(name, index, Len(name))

\* the first part of the body of the last two loops: old replaced by new in
\* the last four characters. found tells whether the numeral was found at
\* the end beyond offset 0, spaced whether a space stands before it.
ModifiedStep(course, old, new, roman, numeral) ==
    LET modified_course_name ==
            ButLast4(course) \o ReplaceStr(last_4_chars(course), old, new)
        last_4 == last_4_chars(modified_course_name)
        ends == EndsWith(last_4, numeral) \/ EndsWith(last_4, roman)
        index == EndIndex(modified_course_name, last_4, roman, numeral)
        found == ends /\ index > 0
        spaced == found /\ At(modified_course_name, index - 1) = " "
    IN  [added |-> {LowerSeq(modified_course_name)}
                   \cup (IF found /\ ~spaced
                         THEN {LowerSeq(Spaced(modified_course_name, index))}
                         ELSE {}),
         found |-> found,
         spaced |-> spaced]

\* the second part: the numeral at the end of the name itself is set off by
\* a space, or the space before it is taken out
EndStep(course, roman, numeral) ==
    LET ends == \/ EndsWith(last_4_chars(course), roman)
                \/ EndsWith(last_4_chars(course), numeral)
        index == EndIndex(course, last_4_chars(course), roman, numeral)
        found == ends /\ index > 0
    IN  [added |-> IF ~found THEN {}
                   ELSE IF At(course, index - 1) # " "
                   THEN {LowerSeq(Spaced(course, index))}
                   ELSE {LowerSeq(Slice(course, 0, index - 1)
                                  \o Slice(course, index, Len(course)))},
         found |-> found]

\* the loop over roman_to_numeral_sorted: it ends when the first part finds
\* the numeral at the end
RECURSIVE RomanLoop(_, _, _)
RomanLoop(course, pairs, variations) ==
    IF pairs = <<>> THEN variations
    ELSE LET roman == Head(pairs)[1]
             numeral == Head(pairs)[2]
             first == IF Contains(LowerSeq(last_4_chars(course)),
                                  LowerSeq(roman))
                      THEN ModifiedStep(course, roman, numeral, roman, numeral)
                      ELSE [added |-> {}, found |-> FALSE, spaced |-> FALSE]
         IN  IF first.found THEN variations \cup first.added
             ELSE RomanLoop(course, Tail(pairs),
                            variations \cup first.added
                                \cup EndStep(course, roman, numeral).added)

\* the loop over numeral_to_roman_sorted: it ends when the first part finds
\* the numeral at the end after a space, or the second part finds it
RECURSIVE NumeralLoop(_, _, _)
NumeralLoop(course, pairs, variations) ==
    IF pairs = <<>> THEN variations
    ELSE LET roman == Head(pairs)[1]
             numeral == Head(pairs)[2]
             first == IF Contains(last_4_chars(course), numeral)
                      THEN ModifiedStep(course, numeral, roman, roman, numeral)
                      ELSE [added |-> {}, found |-> FALSE, spaced |-> FALSE]
             second == EndStep(course, roman, numeral)
         IN  IF first.spaced THEN variations \cup first.added
             ELSE IF second.found
                  THEN variations \cup first.added \cup second.added
             ELSE NumeralLoop(course, Tail(pairs), variations \cup first.added)

\* the variants of one value: identity, hyphens removed, "&" spelled out, and
\* the variants of the numeral loops
generate_course_variations(course) ==
    NumeralLoop(course, numeral_to_roman_sorted,
        RomanLoop(course, roman_to_numeral_sorted,
            {LowerSeq(course),
             LowerSeq(Replace(course, "-", <<>>)),
             LowerSeq(Replace(course, "&", <<"a", "n", "d">>))}
            \cup UNION {SubstitutedVariants(course, numeral_pairs[i][1],
                                            numeral_pairs[i][2]) :
                            i \in 1..8}))

(***************************************************************************)
(* Calls of generate_course_variations on values of up to three tokens     *)
(***************************************************************************)
MaxTokens == 3

VariationTokens ==
    {<<"a", "b">>, <<"I">>, <<"I", "I">>, <<"i", "v">>, <<"V">>, <<"2">>,
     <<"5">>}

\* the tokens joined by single spaces, and values with a numeral joined to
\* the word before it
VariationCourses ==
    {join(ws) : ws \in UNION {[1..n -> VariationTokens] : n \in 1..MaxTokens}}
    \cup {<<"a", "b", "-", "I", "I">>, <<"a", "b", "-", "2">>,
          <<"a", "b", "I", "I">>, <<"a", "b", "2">>}

InitVariations ==
    /\ pc = "loaded"
    /\ page_text = <<>>
    /\ course_name \in VariationCourses
    /\ course_list = {}
    /\ result = <<>>
    /\ start_no_space = 0
    /\ end_no_space = 0
    /\ original = <<0, 0>>
    /\ positions = <<>>
    /\ searched = FALSE
    /\ low_confidence_matches = <<>>
    /\ course_variations = {}
    /\ NoInfoInput
    /\ NoLowInput
    /\ errors_file = <<>>
    /\ NoAccessInput
    /\ NoResolveInput
    /\ NoGapInput
    /\ NoTrimInput
    /\ NoParInput
    /\ NoZtaInput
    /\ NoPagesInput

\* one call of generate_course_variations(course_name)
GenerateCourseVariations ==
    /\ pc = "loaded"
    /\ course_variations' = generate_course_variations(course_name)
    /\ pc' = "generated"
    /\ UNCHANGED <<page_text, varsResolve, varsMatch, varsGap, varsTrim, varsPar,
                   varsZta, varsPages, varsInfo, varsLow, errors_file,
                   varsAccess>>

NextVariations == GenerateCourseVariations

SpecVariations == InitVariations /\ [][NextVariations]_vars

\* the word is a Roman numeral I to VIII, in either case
IsRomanWord(w) == \E i \in 1..8 : numeral_pairs[i][1] = UpperSeq(w)

\* the word is an Arabic numeral 1 to 8
IsArabicWord(w) == \E i \in 1..8 : numeral_pairs[i][2] = w

\* the Arabic numeral of a Roman word and the Roman numeral, in lower case,
\* of an Arabic word
ArabicOf(w) ==
    numeral_pairs[CHOOSE i \in 1..8 : numeral_pairs[i][1] = UpperSeq(w)][2]

RomanOf(w) ==
    LowerSeq(numeral_pairs[CHOOSE i \in 1..8 : numeral_pairs[i][2] = w][1])

\* the variant holds the words of the value in lower case, with word k
\* replaced by its counterpart to, and any other numeral as it is or replaced
ReplacesWord(v, words, k, to) ==
    /\ Len(split(v)) = Len(words)
    /\ split(v)[k] = to
    /\ \A j \in 1..Len(words) :
          j # k =>
              \/ split(v)[j] = LowerSeq(words[j])
              \/ IsRomanWord(words[j]) /\ split(v)[j] = ArabicOf(words[j])
              \/ IsArabicWord(words[j]) /\ split(v)[j] = RomanOf(words[j])

\* every Roman numeral I to VIII that is a word of the value is replaced by
\* its Arabic numeral in some variant
RomanWordsReplaced ==
    \A k \in 1..Len(split(course_name)) :
        IsRomanWord(split(course_name)[k]) =>
            \E v \in course_variations :
                ReplacesWord(v, split(course_name), k,
                             ArabicOf(split(course_name)[k]))

\* every Arabic numeral 1 to 8 that is a word of the value is replaced by its
\* Roman numeral in some variant
ArabicWordsReplaced ==
    \A k \in 1..Len(split(course_name)) :
        IsArabicWord(split(course_name)[k]) =>
            \E v \in course_variations :
                ReplacesWord(v, split(course_name), k,
                             RomanOf(split(course_name)[k]))

\* C27: for every Roman numeral I to VIII that is a whole word of the value,
\* at any position, a variant holds the Arabic numeral in its place; for
\* every Arabic numeral 1 to 8 that is a whole word, at any position, a
\* variant holds the Roman numeral in its place; every variant is lowercase
NumeralVariantsAtAnyPosition ==
    pc = "generated" =>
        /\ RomanWordsReplaced
        /\ ArabicWordsReplaced
        /\ \A v \in course_variations : v = LowerSeq(v)

\* the part of C27 that holds: the Roman numerals are replaced at any
\* position, an Arabic numeral that is the last word of the value is
\* replaced, and every variant is lowercase
NumeralVariantsOfLastWord ==
    pc = "generated" =>
        /\ RomanWordsReplaced
        /\ \A v \in course_variations : v = LowerSeq(v)
        /\ IsArabicWord(split(course_name)[Len(split(course_name))]) =>
              \E v \in course_variations :
                  ReplacesWord(v, split(course_name), Len(split(course_name)),
                               RomanOf(split(course_name)[Len(split(course_name))]))

(***************************************************************************)
(* sliding_window_match: the space-normalized pass                         *)
(***************************************************************************)
\* re.finditer(re.escape(pat), s, re.IGNORECASE) from offset i on: the start
\* offsets of the leftmost non-overlapping occurrences
RECURSIVE finditer(_, _, _)
finditer(pat, s, i) ==
    IF i + Len(pat) > Len(s) THEN <<>>
    ELSE IF LowerSeq(Slice(s, i, i + Len(pat))) = LowerSeq(pat)
         THEN <<i>> \o finditer(pat, s, i + Len(pat))
         ELSE finditer(pat, s, i + 1)

lab_variations(course) ==
    {LowerSeq(course) \o <<" ", "l", "a", "b">>,
     LowerSeq(course) \o <<" ", "l", "a", "b", "o", "r", "a", "t", "o", "r", "y">>,
     LowerSeq(course) \o <<" ", "(", "p", "r", "a", "c", "t", "i", "c", "a", "l", ")">>}

\* while end_idx < len(page_text) and page_text[end_idx] != " "
RECURSIVE WalkToSpace(_, _)
WalkToSpace(t, i) ==
    IF i < Len(t) /\ At(t, i) # " " THEN WalkToSpace(t, i + 1) ELSE i

\* the body of the finditer loop for the occurrence at start offset m
ExactMatch(t, catalog, course, m) ==
    LET page_text_no_space == NoSpace(t)
        course_no_space == NoSpace(course)
        e == m + Len(course_no_space)
        next_five_chars == LowerSeq(Slice(page_text_no_space, e, e + 5))
        next_eleven_chars == LowerSeq(Slice(page_text_no_space, e, e + 11))
    IN  IF /\ lab_variations(course) \cap {LowerSeq(c) : c \in catalog} # {}
           /\ \/ Contains(next_five_chars, <<"l", "a", "b">>)
              \/ Contains(next_eleven_chars,
                          <<"p", "r", "a", "c", "t", "i", "c", "a", "l">>)
        THEN <<>>
        ELSE LET mapped == map_index_to_original(t, page_text_no_space, m, e)
                 walked == WalkToSpace(t, mapped[2])
             IN  <<[Start |-> mapped[1], End |-> walked,
                    Best |-> Slice(t, mapped[1], walked), Confidence |-> 100]>>

RECURSIVE ExactMatchesAt(_, _, _, _)
ExactMatchesAt(t, catalog, course, starts) ==
    IF starts = <<>> THEN <<>>
    ELSE ExactMatch(t, catalog, course, Head(starts))
         \o ExactMatchesAt(t, catalog, course, Tail(starts))

\* exact_matches of one variant
exact_matches(t, catalog, course) ==
    ExactMatchesAt(t, catalog, course, finditer(NoSpace(course), NoSpace(t), 0))

(***************************************************************************)
(* sliding_window_match: the sliding-window search                         *)
(***************************************************************************)
\* text[a:b] with a negative b counted from the end
PySlice(s, a, b) == Slice(s, a, IF b < 0 THEN Max(0, Len(s) + b) ELSE b)

\* s.find(sub, from)
find(s, sub, from) ==
    LET at == {i \in from..(Len(s) - Len(sub)) : Slice(s, i, i + Len(sub)) = sub}
    IN  IF at = {} THEN -1 ELSE CHOOSE i \in at : \A j \in at : i <= j

\* re.search(r'\b(in|of|an|&)\b', substring) or '&' in substring, on the four
\* characters before start_idx
contains_in_before_index(t, start) ==
    LET substring == LowerSeq(PySlice(t, Max(0, start - 4), start))
    IN  \/ \E w \in {<<"i", "n">>, <<"o", "f">>, <<"a", "n">>} :
              \E i \in 0..(Len(substring) - 2) :
                  /\ Slice(substring, i, i + 2) = w
                  /\ (i = 0 \/ ~IsWordChar(At(substring, i - 1)))
                  /\ (i + 2 = Len(substring) \/ ~IsWordChar(At(substring, i + 2)))
        \/ Contains(substring, <<"&">>)

discard_words == {<<"o", "f">>, <<"i", "n">>, <<"a", "n", "d">>, <<"&">>}

discard_courses(course, start, t) ==
    LET course_words == split(LowerSeq(course))
        course_start == LowerSeq(PySlice(t, Max(0, start - 4), start))
    IN  \/ (course_words # <<>> /\ course_words[1] \in discard_words)
        \/ \E word \in discard_words : Contains(course_start, word)

\* the digits 1 to 8 written as Roman numerals
RECURSIVE DigitsToRoman(_)
DigitsToRoman(s) ==
    IF s = <<>> THEN <<>>
    ELSE (CASE Head(s) = "1" -> <<"I">>
            [] Head(s) = "2" -> <<"I", "I">>
            [] Head(s) = "3" -> <<"I", "I", "I">>
            [] Head(s) = "4" -> <<"I", "V">>
            [] Head(s) = "5" -> <<"V">>
            [] Head(s) = "6" -> <<"V", "I">>
            [] Head(s) = "7" -> <<"V", "I", "I">>
            [] Head(s) = "8" -> <<"V", "I", "I", "I">>
            [] OTHER -> <<Head(s)>>)
         \o DigitsToRoman(Tail(s))

\* the pair of normalized names; the replacement of the upper-case Roman
\* numerals that follows the lower-casing finds none
normalize_course_name(name) ==
    <<LowerSeq(Replace(DigitsToRoman(name), "-", <<" ">>)),
      LowerSeq(Replace(DigitsToRoman(name), "-", <<>>))>>

\* str() of a pair of strings that hold no quote and no backslash
TupleStr(pair) ==
    <<"(", "'">> \o pair[1] \o <<"'", ",", " ", "'">> \o pair[2] \o <<"'", ")">>

\* the confidence in hundredths: fuzz.ratio is given the two pairs, which it
\* compares as they are and then as their str()
calculate_confidence(window, course) ==
    ratio(TupleStr(normalize_course_name(window)),
          TupleStr(normalize_course_name(course)))

\* the last of the candidates with the highest ratio to the despaced variant
RECURSIVE BestOfSame(_, _, _)
BestOfSame(best_matches, course, best) ==
    IF best_matches = <<>> THEN best
    ELSE LET score == ratio(LowerSeq(NoSpace(course)),
                            LowerSeq(NoSpace(Head(best_matches)[1])))
         IN  BestOfSame(Tail(best_matches), course,
                        IF score >= best.score
                        THEN [match |-> Head(best_matches)[1], score |-> score,
                              idx |-> Head(best_matches)[2]]
                        ELSE best)

\* the search state after a window whose confidence equals the highest so
\* far and is at least 0.80: the window joins the candidates, with the best
\* window so far if there is one, and the best of the candidates is kept
WindowTie(st, course, appended) ==
    CHOOSE r \in
        {[st EXCEPT !.best_match = same.match,
                    !.best_match_start_idx = same.idx,
                    !.best_matches = appended] :
            same \in {BestOfSame(appended, course,
                                 [match |-> <<>>, score |-> 0,
                                  idx |-> st.best_match_start_idx])}} : TRUE

\* the search state after the window at word i
WindowStep(st, window, i, confidence) ==
    IF confidence > st.max_confidence
    THEN [st EXCEPT !.max_confidence = confidence,
                    !.best_match = window,
                    !.best_match_start_idx = i]
    ELSE st

\* the windows from word i on
RECURSIVE WindowSearch(_, _, _, _)
WindowSearch(page_words, course, i, st) ==
    IF i > Len(page_words) - Len(split(course)) THEN st
    ELSE CHOOSE r \in
             {WindowSearch(page_words, course, i + 1,
                  IF confidence = st.max_confidence /\ confidence >= 80
                  THEN WindowTie(st, course,
                           (IF st.best_match # <<>>
                            THEN Append(st.best_matches,
                                        <<st.best_match, st.best_match_start_idx>>)
                            ELSE st.best_matches) \o <<<<window, i>>>>)
                  ELSE WindowStep(st, window, i, confidence)) :
                 <<window, confidence>> \in
                     {<<w, calculate_confidence(w, course)>> :
                         w \in {join(SubSeq(page_words, i + 1,
                                            i + Len(split(course))))}}} : TRUE

\* sum of len(page_words[j]) + 1 for the words before the best window
RECURSIVE StartInText(_, _)
StartInText(page_words, n) ==
    IF n = 0 THEN 0
    ELSE StartInText(page_words, n - 1) + Len(page_words[n]) + 1

\* re.sub(r'[.:*+?|()\[\]{}^$\s"]', '', s)
special_chars ==
    {".", ":", "*", "+", "?", "|", "(", ")", "[", "]", "{", "}", "^", "$",
     " ", "\n", "\""}

RECURSIVE NoSpecial(_)
NoSpecial(s) ==
    IF s = <<>> THEN <<>>
    ELSE (IF Head(s) \in special_chars THEN <<>> ELSE <<Head(s)>>)
         \o NoSpecial(Tail(s))

\* a plus sign or a single character at either end of the window that the
\* value does not have
EndsDiffer(best_match_words, course_words) ==
    \/ (HasPlus(best_match_words[1]) /\ ~HasPlus(course_words[1]))
    \/ (/\ HasPlus(best_match_words[Len(best_match_words)])
        /\ ~HasPlus(course_words[Len(course_words)]))
    \/ (Len(best_match_words[1]) = 1 /\ Len(course_words[1]) > 1)
    \/ (/\ Len(best_match_words[Len(best_match_words)]) = 1
        /\ Len(course_words[Len(course_words)]) > 1)

\* no match appended for a variant
NoMatch(current_position, best_match, exception) ==
    [found |-> <<>>, current_position |-> current_position,
     assigned |-> FALSE, low |-> <<>>, best_match |-> best_match,
     raised |-> exception]

\* the match of a variant whose text was found at found_at, unless it is
\* discarded; the position moves on when the window was not the longer one
FuzzyFound(t, current_position, st, longer, value, found_at) ==
    IF \/ discard_courses(IF longer THEN value ELSE st.best_match, found_at, t)
       \/ contains_in_before_index(t, found_at)
    THEN NoMatch(current_position, st.best_match, "")
    ELSE [found |-> <<[Start |-> found_at, End |-> found_at + Len(value),
                       Best |-> value, Confidence |-> st.max_confidence]>>,
          current_position |-> IF longer THEN current_position
                               ELSE found_at + Len(value),
          assigned |-> ~longer,
          low |-> <<>>,
          best_match |-> st.best_match,
          raised |-> ""]

\* the best window trimmed, if it is the longer one or its ends differ, and
\* looked up in the page from the start of the window on
FuzzyTrim(t, name, course, current_position, st, longer) ==
    CHOOSE r \in
        {IF trimmed.raised # ""
         THEN NoMatch(current_position, st.best_match, trimmed.raised)
         ELSE FuzzyFound(t, current_position, st, longer, trimmed.value,
                         find(t, trimmed.value,
                              StartInText(split(t), st.best_match_start_idx))) :
            trimmed \in
                {IF longer \/ EndsDiffer(split(st.best_match), split(name))
                 THEN trim_by_words(course, st.best_match)
                 ELSE [value |-> st.best_match, raised |-> ""]}} : TRUE

\* the body of the loop over the sorted variants for one variant: the match
\* appended if any, the position left for the next search, the best window
FuzzyMatch(t, name, course, current_position) ==
    CHOOSE r \in
        {IF st.max_confidence < 80
         THEN [NoMatch(current_position, st.best_match, "") EXCEPT
                  !.low = <<[Best |-> st.best_match,
                             Confidence |-> st.max_confidence,
                             Start |-> -1, End |-> -1]>>]
         ELSE FuzzyTrim(t, name, course, current_position, st,
                        Len(NoSpecial(st.best_match)) > Len(NoSpecial(course))) :
            st \in {WindowSearch(split(t), course, current_position,
                                 [max_confidence |-> 0, best_match |-> <<>>,
                                  best_match_start_idx |-> 0,
                                  best_matches |-> <<>>])}} : TRUE

\* the result so far with the outcome of one variant; positions lists the
\* values assigned to current_position since the call began, in order
Accumulate(acc, m) ==
    [result |-> acc.result \o m.found,
     current_position |-> m.current_position,
     positions |-> IF m.assigned
                   THEN Append(acc.positions, m.current_position)
                   ELSE acc.positions,
     low_confidence_matches |-> acc.low_confidence_matches \o m.low,
     best_match |-> m.best_match,
     raised |-> m.raised]

\* the loop over the variants sorted by length
RECURSIVE FuzzyLoop(_, _, _, _)
FuzzyLoop(t, name, sorted, acc) ==
    IF sorted = <<>> \/ acc.raised # "" THEN acc
    ELSE FuzzyLoop(t, name, Tail(sorted),
                   Accumulate(acc, FuzzyMatch(t, name, Head(sorted),
                                              acc.current_position)))

\* the word after the first place where the words of the last best window
\* stand in the page
PositionAfter(page_words, best_match_words, current_position) ==
    LET at == {i \in 0..(Len(page_words) - Len(best_match_words)) :
                  SubSeq(page_words, i + 1, i + Len(best_match_words))
                      = best_match_words}
    IN  IF best_match_words = <<>> \/ at = {} THEN current_position
        ELSE (CHOOSE i \in at : \A j \in at : i <= j) + Len(best_match_words)

\* sorted(course_variations, key=len, reverse=True): the longest first, equal
\* lengths in the order given
RECURSIVE SortByLen(_)
SortByLen(seq) ==
    IF seq = <<>> THEN <<>>
    ELSE LET longest == CHOOSE i \in 1..Len(seq) :
                            /\ \A j \in 1..Len(seq) : Len(seq[j]) <= Len(seq[i])
                            /\ \A j \in 1..(i - 1) : Len(seq[j]) < Len(seq[i])
         IN  <<seq[longest]>>
             \o SortByLen(SubSeq(seq, 1, longest - 1)
                          \o SubSeq(seq, longest + 1, Len(seq)))

\* the state of the call after the loop over the sorted variants
AfterFuzzyLoop(t, r) ==
    CHOOSE after \in
        {[result |-> r.result,
          current_position |-> position,
          positions |-> IF r.raised = "" /\ split(r.best_match) # <<>>
                        THEN Append(r.positions, position)
                        ELSE r.positions,
          low_confidence_matches |-> r.low_confidence_matches,
          fallback |-> TRUE,
          raised |-> r.raised] :
            position \in
                {IF r.raised # "" THEN r.current_position
                 ELSE PositionAfter(split(t), split(r.best_match),
                                    r.current_position)}} : TRUE

\* the search entered for a variant without a space-normalized match
Fallback(t, name, variations, acc) ==
    AfterFuzzyLoop(t, FuzzyLoop(t, name, SortByLen(variations),
                                [result |-> acc.result,
                                 current_position |-> acc.current_position,
                                 positions |-> acc.positions,
                                 low_confidence_matches |->
                                     acc.low_confidence_matches,
                                 best_match |-> <<>>, raised |-> ""]))

\* the loop over course_variations, taken in the order given; a variant whose
\* despaced form was processed already is passed over, and a processed
\* variant without a match starts the sliding-window search. fallback tells
\* whether the search was entered, raised the exception that ended the call.
RECURSIVE ExactPass(_, _, _, _, _, _, _)
ExactPass(t, name, catalog, variations, iteration, processed_courses, acc) ==
    IF iteration = <<>> \/ acc.raised # "" THEN acc
    ELSE IF NoSpace(Head(iteration)) \in processed_courses
         THEN ExactPass(t, name, catalog, variations, Tail(iteration),
                        processed_courses, acc)
         ELSE CHOOSE r \in
                  {ExactPass(t, name, catalog, variations, Tail(iteration),
                             processed_courses \cup {NoSpace(Head(iteration))},
                             IF found # <<>>
                             THEN [acc EXCEPT !.result = acc.result \o found]
                             ELSE Fallback(t, name, variations, acc)) :
                      found \in {exact_matches(t, catalog, Head(iteration))}} : TRUE

\* the orders in which a set can be iterated
Orders(S) ==
    {f \in [1..Cardinality(S) -> S] : \A x \in S : \E i \in DOMAIN f : f[i] = x}

(***************************************************************************)
(* Calls of sliding_window_match                                           *)
(***************************************************************************)
Courses ==
    {<<"a">>, <<"a", "b">>, <<"a", " ", "b">>, <<"b", " ", "a">>,
     <<"A", "b">>, <<"a", "-", "b">>}

\* a value of two words, and pages that hold it before the token "lab", as
\* it is written and without its space
LabCourses == {<<"a", "b", "b", "a", "b", " ", "a", "b">>}

LabPageTexts ==
    {<<"a", "b", "b", "a", "b", " ", "a", "b", " ", "l", "a", "b">>,
     <<"a", "b", "b", "a", "b", "a", "b", " ", "l", "a", "b">>,
     <<"a", " ", "a", "b", "b", "a", "b", "a", "b", " ", "l", "a", "b", " ", "a">>,
     <<"a", "b", "b", "a", "b", "a", "b">>}

\* the catalog holds the value, and possibly its lab sibling
Catalogs(course) == {{course}, {course, course \o <<" ", "L", "a", "b">>}}

InitMatch ==
    /\ pc = "loaded"
    /\ \/ page_text \in PageTexts /\ course_name \in Courses
       \/ page_text \in LabPageTexts /\ course_name \in LabCourses
    /\ course_list \in Catalogs(course_name)
    /\ result = <<>>
    /\ start_no_space = 0
    /\ end_no_space = 0
    /\ original = <<0, 0>>
    /\ positions = <<>>
    /\ searched = FALSE
    /\ low_confidence_matches = <<>>
    /\ NoResolveInput
    /\ NoGapInput
    /\ NoTrimInput
    /\ NoParInput
    /\ NoZtaInput
    /\ NoPagesInput
    /\ NoRestInput

\* one call of sliding_window_match(page_text, [course_name], course_list, 0,
\* page_number): the matches returned, or the exception that ends the call
SlidingWindowMatch ==
    /\ pc = "loaded"
    /\ \E iteration \in Orders(generate_course_variations(course_name)) :
          \E r \in {ExactPass(page_text, course_name, course_list, iteration,
                              iteration, {},
                              [result |-> <<>>, current_position |-> 0,
                               positions |-> <<0>>,
                               low_confidence_matches |-> <<>>,
                               fallback |-> FALSE, raised |-> ""])} :
             /\ result' = IF r.raised = "" THEN r.result ELSE <<>>
             /\ positions' = r.positions
             /\ searched' = r.fallback
             /\ low_confidence_matches' = IF r.raised = ""
                                          THEN r.low_confidence_matches
                                          ELSE <<>>
             /\ raised' = r.raised
    /\ pc' = "matched"
    /\ UNCHANGED <<varsResolve, varsGap, varsPar, varsZta, varsPages, varsRest, page_text,
                   course_name, course_list, start_no_space, end_no_space,
                   original, best_match_text, best_trimmed_match>>

NextMatch == SlidingWindowMatch

SpecMatch == InitMatch /\ [][NextMatch]_vars

\* single spaces between tokens and none at either end of the page
NormalSpacing(t) ==
    /\ t # <<>>
    /\ t[1] # " "
    /\ t[Len(t)] # " "
    /\ \A i \in 1..(Len(t) - 1) : ~(t[i] = " " /\ t[i + 1] = " ")

\* d occurs at offset k of the page as a run of whole tokens
TokenOccurrence(t, d, k) ==
    /\ k + Len(d) <= Len(t)
    /\ LowerSeq(Slice(t, k, k + Len(d))) = LowerSeq(d)
    /\ (k = 0 \/ At(t, k - 1) = " ")
    /\ (k + Len(d) = Len(t) \/ At(t, k + Len(d)) = " ")

\* C4: a value without a lab sibling that occurs verbatim in a normally
\* spaced page, at any position, is matched with confidence 1.0 and exactly
\* the range of the occurrence
ExactMatchAnywhere ==
    (pc = "matched" /\ NormalSpacing(page_text) /\ course_list = {course_name}) =>
        \A k \in 0..Len(page_text) :
            TokenOccurrence(page_text, course_name, k) =>
                \E i \in 1..Len(result) :
                    /\ result[i].Start = k
                    /\ result[i].End = k + Len(course_name)
                    /\ result[i].Confidence = 100

\* the hyphen-free, space-free form of the value
DespacedForm(course) == LowerSeq(NoSpace(Replace(course, "-", <<>>)))

\* C6: where the despaced form of the value is a token of the page, after any
\* number of spaces, a match starts there and its range of the page, spaces
\* removed, is the despaced form
DespacedMatchOffsets ==
    (pc = "matched" /\ course_list = {course_name}) =>
        \A k \in 0..Len(page_text) :
            TokenOccurrence(page_text, DespacedForm(course_name), k) =>
                \E i \in 1..Len(result) :
                    /\ result[i].Start = k
                    /\ LowerSeq(NoSpace(Slice(page_text, result[i].Start,
                                              result[i].End)))
                          = DespacedForm(course_name)

\* the offsets of a match lie in the page, in order
InPage(match) ==
    /\ 0 <= match.Start
    /\ match.Start <= match.End
    /\ match.End <= Len(page_text)

\* C20: every returned match has 0 <= Start <= End <= len(page_text), and the
\* page between its offsets is its Best Match text
MatchWithinPage ==
    (pc = "matched" /\ raised = "") =>
        \A i \in 1..Len(result) :
            /\ InPage(result[i])
            /\ Slice(page_text, result[i].Start, result[i].End) = result[i].Best

\* the part of C20 that holds: a match whose offsets lie in the page in order
\* has the page between them as its Best Match text
SliceIsBestMatch ==
    (pc = "matched" /\ raised = "") =>
        \A i \in 1..Len(result) :
            InPage(result[i]) =>
                Slice(page_text, result[i].Start, result[i].End) = result[i].Best

\* a sequence of numbers in which no entry is smaller than the one before
NonDecreasing(seq) == \A i \in 1..(Len(seq) - 1) : seq[i] <= seq[i + 1]

\* C21: during the search of a page for a course the cursor current_position
\* never decreases: every value assigned to it is at or after the one before
CursorNeverDecreases ==
    pc = "matched" => NonDecreasing(positions)

\* the part of C21 that holds: no value assigned to the cursor is negative
CursorNeverNegative ==
    pc = "matched" => \A i \in 1..Len(positions) : positions[i] >= 0

\* some variant of the value has a space-normalized match in the page
SomeVariantMatches ==
    \E v \in generate_course_variations(course_name) :
        exact_matches(page_text, course_list, v) # <<>>

\* the matches the space-normalized matcher finds for the variants
ExactMatchesOfVariants ==
    UNION {{m[i] : i \in 1..Len(m)} :
              m \in {exact_matches(page_text, course_list, v) :
                         v \in generate_course_variations(course_name)}}

\* C22: the sliding-window search runs only when no variant of the value has
\* a space-normalized match in the page: when some variant has one, the
\* search is not entered and every returned match is a space-normalized one
FuzzyOnlyWithoutExact ==
    (pc = "matched" /\ SomeVariantMatches) =>
        /\ ~searched
        /\ \A i \in 1..Len(result) : result[i] \in ExactMatchesOfVariants

\* the part of C22 that holds: a call in which no variant has a
\* space-normalized match enters the sliding-window search, and a call in
\* which every variant has one does not
SearchedWhenNoneOrAllMatch ==
    pc = "matched" =>
        /\ ~SomeVariantMatches => searched
        /\ (\A v \in generate_course_variations(course_name) :
                exact_matches(page_text, course_list, v) # <<>>) => ~searched

\* the catalog holds a lab, laboratory or (practical) entry for the value
HasLabSibling ==
    lab_variations(course_name) \cap {LowerSeq(c) : c \in course_list} # {}

\* "lab" stands in the 5, or "practical" in the 11, despaced characters of
\* the page after offset e of the despaced page
LabFollows(t, e) ==
    \/ Contains(LowerSeq(Slice(NoSpace(t), e, e + 5)), <<"l", "a", "b">>)
    \/ Contains(LowerSeq(Slice(NoSpace(t), e, e + 11)),
                <<"p", "r", "a", "c", "t", "i", "c", "a", "l">>)

\* the occurrences of variant v in the despaced page, as finditer yields them
Occurrences(v) ==
    {finditer(NoSpace(v), NoSpace(page_text), 0)[i] :
        i \in 1..Len(finditer(NoSpace(v), NoSpace(page_text), 0))}

\* C23: with a lab sibling of the value in the catalog, the space-normalized
\* matcher returns no match of any variant of the value that is followed by
\* "lab" within 5 or "practical" within 11 despaced characters
NoExactMatchBeforeLab ==
    (pc = "matched" /\ HasLabSibling) =>
        \A v \in generate_course_variations(course_name) :
            \A k \in Occurrences(v) :
                LabFollows(page_text, k + Len(NoSpace(v))) =>
                    ExactMatch(page_text, course_list, v, k) = <<>>

\* the part of C23 that holds: the same for the variant that is the value in
\* lower case
NoExactMatchOfValueBeforeLab ==
    (pc = "matched" /\ HasLabSibling) =>
        \A k \in Occurrences(LowerSeq(course_name)) :
            LabFollows(page_text, k + Len(NoSpace(course_name))) =>
                ExactMatch(page_text, course_list, LowerSeq(course_name), k)
                    = <<>>

\* the sibling of the value in the catalog
LabSibling(course) == course \o <<" ", "L", "a", "b">>

\* a written form of the value, with or without its spaces, stands in the
\* page from the start of a token on and is followed by the token "lab"
SurfaceBeforeLab(t, course) ==
    \E s \in 0..Len(t) : \E e \in (s + 1)..Len(t) :
        /\ LowerSeq(NoSpace(Slice(t, s, e)))
               \in {NoSpace(v) : v \in generate_course_variations(course)}
        /\ At(t, s) # " "
        /\ At(t, e - 1) # " "
        /\ (s = 0 \/ At(t, s - 1) = " ")
        /\ LowerSeq(Slice(t, e, e + 4)) = <<" ", "l", "a", "b">>
        /\ (e + 4 = Len(t) \/ At(t, e + 4) = " ")

\* C5: with the lab sibling of the value in the catalog and a written form of
\* the value followed by the token "lab" in the page, no match returned for
\* the value holds "lab", in its text or in its range of the page
LectureSpanWithoutLab ==
    (/\ pc = "matched"
     /\ raised = ""
     /\ LabSibling(course_name) \in course_list
     /\ SurfaceBeforeLab(page_text, course_name)) =>
        \A i \in 1..Len(result) :
            /\ ~Contains(LowerSeq(result[i].Best), <<"l", "a", "b">>)
            /\ ~Contains(LowerSeq(PySlice(page_text, Max(0, result[i].Start),
                                          result[i].End)),
                         <<"l", "a", "b">>)

\* the same where the written form keeps the spaces of the value
LectureSpanWithoutLabSpaced ==
    (/\ pc = "matched"
     /\ raised = ""
     /\ LabSibling(course_name) \in course_list
     /\ \E k \in 0..Len(page_text) :
            TokenOccurrence(page_text, course_name \o <<" ", "l", "a", "b">>, k)) =>
        \A i \in 1..Len(result) :
            ~Contains(LowerSeq(result[i].Best), <<"l", "a", "b">>)

(***************************************************************************)
(* extract_course_details_in_gap                                           *)
(***************************************************************************)
\* a character that the regular expression class \w holds
IsWord(c) == c \in Digits \cup {"a", "b", "c", "A", "B", "C"}

\* s.rstrip('0')
RECURSIVE RStripZeros(_)
RStripZeros(s) ==
    IF s # <<>> /\ s[Len(s)] = "0" THEN RStripZeros(SubSeq(s, 1, Len(s) - 1))
    ELSE s

\* offset of the first "." of s, Len(s) if it has none
RECURSIVE DotAt(_, _)
DotAt(s, i) == IF i < Len(s) /\ At(s, i) # "." THEN DotAt(s, i + 1) ELSE i

\* f"{float(s):.kf}" for a decimal numeral s of at most one decimal digit,
\* which is formatted without rounding
FloatFormat(s, k) ==
    LET integer_part == Slice(s, 0, DotAt(s, 0))
        decimal_part == Slice(s, DotAt(s, 0) + 1, Len(s))
    IN  integer_part \o <<".">> \o decimal_part
            \o [i \in 1..(k - Len(decimal_part)) |-> "0"]

\* \b at offset j of s
Boundary(s, j) ==
    (j > 0 /\ IsWord(At(s, j - 1))) # (j < Len(s) /\ IsWord(At(s, j)))

\* the alternatives with which (?<=\s)(alt|...)(?=\s|\b) matches at offset i
MatchesAt(alts, s, i) ==
    {a \in alts :
        /\ i >= 1
        /\ IsSpace(At(s, i - 1))
        /\ i + Len(a) <= Len(s)
        /\ Slice(s, i, i + Len(a)) = a
        /\ \/ (i + Len(a) < Len(s) /\ IsSpace(At(s, i + Len(a))))
           \/ Boundary(s, i + Len(a))}

\* re.search of that pattern: the matches <<start, end, text>> which it can
\* return. The match is at the leftmost offset at which an alternative
\* matches; the alternative is the first one in the order in which the set of
\* alternatives is iterated, which is not determined.
search(alts, s) ==
    LET at == {i \in 1..Len(s) : MatchesAt(alts, s, i) # {}}
    IN  IF at = {} THEN {}
        ELSE LET i == CHOOSE j \in at : \A k \in at : j <= k
             IN  {<<i, i + Len(a), a>> : a \in MatchesAt(alts, s, i)}

\* value_str_without_decimal
WithoutDecimal(value_str) ==
    IF value_str = <<"0", ".", "0">> THEN <<"0", "0">>
    ELSE IF DotAt(value_str, 0) < Len(value_str)
         THEN IF DotAt(value_str, 0) = 2
              THEN SubSeq(value_str, 1, Len(value_str) - 2)
              ELSE RStripZeros(Replace(value_str, ".", <<>>))
         ELSE value_str

\* padded_variants
PaddedVariants(value_str) ==
    IF isdigit(WithoutDecimal(value_str))
    THEN {WithoutDecimal(value_str) \o <<"0">>,
          WithoutDecimal(value_str) \o <<"0", "0">>}
    ELSE {}

\* decimal_variants
DecimalVariants(value_str) ==
    {FloatFormat(value_str, k) : k \in 1..4}
        \cup {value_str, WithoutDecimal(value_str)}
        \cup PaddedVariants(value_str)

\* course_details[key] = entry
SetItem(details, key, entry) ==
    [k \in DOMAIN details \cup {key} |-> IF k = key THEN entry ELSE details[k]]

\* check_and_extract for a numeral value_str: the dictionaries it can leave
check_and_extract(details, value_str, gap_text, offset, key) ==
    IF Strip(value_str) = <<>> THEN {details}
    ELSE LET direct == search({value_str}, gap_text)
             variant == search(DecimalVariants(value_str), gap_text)
             padded == search(IF PaddedVariants(value_str) = {} THEN {<<>>}
                              ELSE PaddedVariants(value_str), gap_text)
             found == IF direct # {} THEN direct
                      ELSE IF variant # {} THEN variant
                      ELSE padded
         IN  IF found = {} THEN {details}
             ELSE {IF Strip(m[3]) = <<>> THEN details
                   ELSE SetItem(details, key,
                                [start_idx |-> m[1] + offset,
                                 end_idx |-> m[2] + offset,
                                 value |-> <<" ">> \o m[3] \o <<" ">>]) :
                      m \in found}

\* next_start_idx: the start of the span after the course span, or 20
\* characters after the course span when it is the last one
NextStartIdx(starts, s_idx, e_idx) ==
    LET i == CHOOSE j \in 1..Len(starts) :
                 /\ starts[j] = s_idx
                 /\ \A k \in 1..(j - 1) : starts[k] # s_idx
    IN  IF i + 1 <= Len(starts) THEN starts[i + 1] ELSE e_idx + 20

\* the second of two equal fields searched in the whole gap window
MutRemainder(details, first_key, value_str, gap_text, e_idx, second_key) ==
    check_and_extract(details, value_str, gap_text, e_idx, second_key)

\* the second of two equal fields is searched after the span of the first
Remainder(details, first_key, value_str, gap_text, e_idx, second_key) ==
    LET first_end_idx == IF first_key \in DOMAIN details
                         THEN details[first_key].end_idx - e_idx
                         ELSE 0
    IN  check_and_extract(details, value_str,
                          Slice(gap_text, first_end_idx, Len(gap_text)),
                          e_idx + first_end_idx, second_key)

\* the numeric fields
NumericFields(om, nc, mm, gap_text, e_idx, hint) ==
    LET none == [k \in {} |-> <<>>]
        pair ==
            IF om # nc
            THEN UNION {(IF om # <<>>
                         THEN check_and_extract(d, om, gap_text, e_idx, "o_mark")
                         ELSE {d}) :
                           d \in (IF nc # <<>>
                                  THEN check_and_extract(none, nc, gap_text, e_idx,
                                                         "native_credit")
                                  ELSE {none})}
            ELSE IF hint = <<>> THEN {none}
            ELSE IF hint[1] = "o_mark"
                 THEN UNION {(IF Len(hint) > 1 /\ hint[2] = "native_credit"
                              THEN Remainder(d, "o_mark", nc, gap_text, e_idx,
                                             "native_credit")
                              ELSE {d}) :
                                d \in check_and_extract(none, om, gap_text, e_idx,
                                                        "o_mark")}
            ELSE IF hint[1] = "native_credit"
                 THEN UNION {(IF Len(hint) > 1 /\ hint[2] = "o_mark"
                              THEN Remainder(d, "native_credit", om, gap_text, e_idx,
                                             "o_mark")
                              ELSE {d}) :
                                d \in check_and_extract(none, nc, gap_text, e_idx,
                                                        "native_credit")}
            ELSE UNION {check_and_extract(d, nc, gap_text, e_idx, "native_credit") :
                           d \in check_and_extract(none, om, gap_text, e_idx, "o_mark")}
    IN  UNION {(IF mm # <<>>
                THEN check_and_extract(d, mm, gap_text, e_idx, "m_mark")
                ELSE {d}) : d \in pair}

\* re.search(r'(?<=\s)' + re.escape(pat) + r'(?=\s)', s) finds a match
SearchDelimited(pat, s) ==
    \E i \in 1..(Len(s) - Len(pat) - 1) :
        /\ IsSpace(At(s, i - 1))
        /\ Slice(s, i, i + Len(pat)) = pat
        /\ IsSpace(At(s, i + Len(pat)))

\* s.find(sub) for a sub that occurs in s
Find(s, sub) ==
    CHOOSE i \in 0..(Len(s) - Len(sub)) :
        /\ Slice(s, i, i + Len(sub)) = sub
        /\ \A j \in 0..(i - 1) : Slice(s, j, j + Len(sub)) # sub

\* the grade and the grade without its sign
GradeFields(details, gr, gap_text, e_idx) ==
    LET grade_without_plus_minus == Replace(Replace(gr, "+", <<>>), "-", <<>>)
        with_grade ==
            IF SearchDelimited(gr, gap_text)
            THEN SetItem(details, "grade",
                         [start_idx |-> Find(gap_text, gr) + e_idx,
                          end_idx |-> Find(gap_text, gr) + e_idx + Len(gr),
                          value |-> gr])
            ELSE details
    IN  IF gr = <<>> THEN details
        ELSE IF /\ grade_without_plus_minus # gr
                /\ SearchDelimited(grade_without_plus_minus, gap_text)
             THEN SetItem(with_grade, "grade_without_sign",
                          [start_idx |-> Find(gap_text, grade_without_plus_minus) + e_idx,
                           end_idx |-> Find(gap_text, grade_without_plus_minus) + e_idx
                                           + Len(grade_without_plus_minus),
                           value |-> grade_without_plus_minus])
             ELSE with_grade

\* the dictionaries the function can return, for field values that are
\* strings and a course span that is among the page's spans
extract_course_details_in_gap(page, om, nc, gr, mm, s_idx, e_idx, starts, hint) ==
    LET gap_text == Slice(page, e_idx, NextStartIdx(starts, s_idx, e_idx))
    IN  {GradeFields(d, gr, gap_text, e_idx) :
            d \in NumericFields(om, nc, mm, gap_text, e_idx, hint)}

(***************************************************************************)
(* Inputs of the gap extractor: a page that starts with a one-character    *)
(* course span, and the field values expected after it                     *)
(***************************************************************************)
MaxGapLen == 4

GapAlphabet == {" ", "0", "3", "."}

Gaps ==
    UNION {[1..n -> GapAlphabet] : n \in 1..MaxGapLen}
    \cup {<<" ", "1", "2", "5", "0">>,
          <<" ", "1", "2", "0", "0", " ">>,
          <<" ", "1", "2", ".", "5", " ">>,
          <<" ", "B", "+", " ", "3">>,
          <<" ", "B", " ", "B", "+", " ">>,
          <<" ", "B", "+", " ", "B", " ">>}

Values ==
    {<<"3", ".", "0">>, <<"3">>, <<"0", ".", "0">>, <<"0", ".", "3">>,
     <<"1", "2", ".", "5">>, <<"1", "2", ".", "0">>}

InitGap ==
    /\ pc = "loaded"
    /\ page_text \in {<<"c">> \o g : g \in Gaps}
    /\ start_idx = 0
    /\ end_idx = 1
    /\ current_page_matches_sorted \in {<<0>>, <<0, Len(page_text) - 1>>}
    /\ o_mark \in Values \cup {<<>>}
    /\ native_credit \in {<<>>, <<"3", ".", "0">>}
    /\ m_mark \in {<<>>, <<"0", ".", "0">>}
    /\ grade \in {<<>>, <<"B", "+">>}
    /\ order \in (IF o_mark = native_credit
                  THEN {<<>>, <<"o_mark", "native_credit">>,
                        <<"native_credit", "o_mark">>}
                  ELSE {<<>>})
    /\ course_details = <<>>
    /\ NoResolveInput
    /\ NoMatchInput
    /\ NoTrimInput
    /\ NoParInput
    /\ NoZtaInput
    /\ NoPagesInput
    /\ NoRestInput

ExtractCourseDetailsInGap ==
    /\ pc = "loaded"
    /\ course_details' \in
          extract_course_details_in_gap(page_text, o_mark, native_credit, grade,
                                        m_mark, start_idx, end_idx,
                                        current_page_matches_sorted, order)
    /\ pc' = "extracted"
    /\ UNCHANGED <<varsResolve, varsMatch, varsTrim, varsPar, varsZta,
                   varsPages, varsRest, page_text, o_mark, native_credit, m_mark, grade,
                   order, start_idx, end_idx, current_page_matches_sorted>>

NextGap == ExtractCourseDetailsInGap

SpecGap == InitGap /\ [][NextGap]_vars

\* the gap window of the course span
GapWindow ==
    Slice(page_text, end_idx,
          NextStartIdx(current_page_matches_sorted, start_idx, end_idx))

HasDecimalPoint(value_str) == DotAt(value_str, 0) < Len(value_str)

\* the decimal-stripped, zero-padded form: "3.0" gives "300", "2.5" gives "250"
PaddedForm(value_str) == Replace(value_str, ".", <<>>) \o <<"0">>

\* the window holds tok at offset i after a blank, and nothing else but spaces
OnlyToken(gap_text, tok, i) ==
    /\ i >= 1
    /\ i + Len(tok) <= Len(gap_text)
    /\ \A j \in 0..(Len(gap_text) - 1) :
          At(gap_text, j) = (IF j >= i /\ j < i + Len(tok) THEN At(tok, j - i) ELSE " ")

\* C7: for an o_mark with a decimal point that is the only numeric field, a
\* gap window that holds only its padded form yields an o_mark span whose
\* offsets are those of the padded form in the page
PaddedFormExtracted ==
    (/\ pc = "extracted"
     /\ HasDecimalPoint(o_mark)
     /\ native_credit = <<>>
     /\ m_mark = <<>>) =>
        \A i \in 1..Len(GapWindow) :
            OnlyToken(GapWindow, PaddedForm(o_mark), i) =>
                /\ "o_mark" \in DOMAIN course_details
                /\ course_details["o_mark"].start_idx = i + end_idx
                /\ course_details["o_mark"].end_idx = i + end_idx + Len(PaddedForm(o_mark))
                /\ Slice(page_text, course_details["o_mark"].start_idx,
                         course_details["o_mark"].end_idx) = PaddedForm(o_mark)

\* the same for a value with a one-digit integer part
PaddedFormExtractedOneDigit ==
    (/\ pc = "extracted"
     /\ HasDecimalPoint(o_mark)
     /\ DotAt(o_mark, 0) = 1
     /\ native_credit = <<>>
     /\ m_mark = <<>>) =>
        \A i \in 1..Len(GapWindow) :
            OnlyToken(GapWindow, PaddedForm(o_mark), i) =>
                /\ "o_mark" \in DOMAIN course_details
                /\ course_details["o_mark"].start_idx = i + end_idx
                /\ Slice(page_text, course_details["o_mark"].start_idx,
                         course_details["o_mark"].end_idx) = PaddedForm(o_mark)

\* the grade without its sign
SignStripped(gr) == Replace(Replace(gr, "+", <<>>), "-", <<>>)

\* the span is an occurrence of tok in the gap window between whitespace
DelimitedSpan(span, tok) ==
    /\ span.end_idx = span.start_idx + Len(tok)
    /\ span.start_idx - end_idx >= 1
    /\ span.end_idx - end_idx < Len(GapWindow)
    /\ Slice(GapWindow, span.start_idx - end_idx, span.end_idx - end_idx) = tok
    /\ IsSpace(At(GapWindow, span.start_idx - end_idx - 1))
    /\ IsSpace(At(GapWindow, span.end_idx - end_idx))

\* C26: for a grade with a sign, the span of the sign-stripped grade is
\* reported exactly when that form stands in the gap window between
\* whitespace, and the offsets of the grade and of the sign-stripped grade
\* are those of occurrences between whitespace
GradeSpansDelimited ==
    (pc = "extracted" /\ grade # <<>> /\ SignStripped(grade) # grade) =>
        /\ "grade_without_sign" \in DOMAIN course_details
               <=> SearchDelimited(SignStripped(grade), GapWindow)
        /\ "grade" \in DOMAIN course_details =>
               DelimitedSpan(course_details["grade"], grade)
        /\ "grade_without_sign" \in DOMAIN course_details =>
               DelimitedSpan(course_details["grade_without_sign"],
                             SignStripped(grade))

\* the part of C26 that holds: the span of the sign-stripped grade is
\* reported exactly when that form stands in the gap window between
\* whitespace, and the reported offsets are those of the first place where
\* the text of the form stands in the window
GradeSpansAtFirstPlace ==
    (pc = "extracted" /\ grade # <<>> /\ SignStripped(grade) # grade) =>
        /\ "grade_without_sign" \in DOMAIN course_details
               <=> SearchDelimited(SignStripped(grade), GapWindow)
        /\ "grade" \in DOMAIN course_details
               <=> SearchDelimited(grade, GapWindow)
        /\ "grade_without_sign" \in DOMAIN course_details =>
               course_details["grade_without_sign"].start_idx
                   = Find(GapWindow, SignStripped(grade)) + end_idx

\* o_mark and native_credit have the same value and the hint names both
EqualValuesWithHint ==
    /\ o_mark = native_credit
    /\ o_mark # <<>>
    /\ Len(order) = 2

\* C25: when o_mark and native_credit have the same value and the ordering
\* hint names them as (first, second), and both are extracted, the span of
\* the first ends at or before the start of the span of the second, so the
\* two are never the same occurrence
EqualValuesInHintOrder ==
    (/\ pc = "extracted"
     /\ EqualValuesWithHint
     /\ {order[1], order[2]} \subseteq DOMAIN course_details) =>
        /\ course_details[order[1]].end_idx <= course_details[order[2]].start_idx
        /\ course_details[order[1]].start_idx < course_details[order[2]].start_idx
        /\ course_details[order[1]].start_idx >= end_idx

\* both fields are extracted under a hint that names native_credit first
EqualValuesWitness ==
    /\ pc = "extracted"
    /\ EqualValuesWithHint
    /\ order[1] = "native_credit"
    /\ {"o_mark", "native_credit"} \subseteq DOMAIN course_details

(***************************************************************************)
(* process_pdf_file: the loop over the matches of one page. The page holds *)
(* the course spans "c" and "d", each followed by a gap.                   *)
(***************************************************************************)
MaxInfoGap == 3

InfoGaps == UNION {[1..n -> {" ", "3", "B"}] : n \in 1..MaxInfoGap}

\* the page made of the two course spans and their gaps
InfoPage(g1, g2) == <<"c">> \o g1 \o <<"d">> \o g2

\* the matches of the page, with the catalog fields of their courses
InfoMatches(g1, om1, gr1, om2, gr2) ==
    <<[Start |-> 0, End |-> 1, o_mark |-> om1, grade |-> gr1],
      [Start |-> Len(g1) + 1, End |-> Len(g1) + 2, o_mark |-> om2,
       grade |-> gr2]>>

\* sorted(current_page_matches, key=lambda x: x['Start Index']), as the start
\* offsets
RECURSIVE SortedStarts(_)
SortedStarts(ms) ==
    IF ms = <<>> THEN <<>>
    ELSE LET front == SortedStarts(SubSeq(ms, 1, Len(ms) - 1))
             x == ms[Len(ms)].Start
             k == Cardinality({i \in 1..Len(front) : front[i] <= x})
         IN  SubSeq(front, 1, k) \o <<x>> \o SubSeq(front, k + 1, Len(front))

\* course_info with the span of the course and the spans found for it, each
\* appended unless a span of that label with the same offsets was seen
RECURSIVE AppendLabels(_, _)
AppendLabels(info, labelled) ==
    IF labelled = <<>> THEN info
    ELSE AppendLabels(IF \E i \in 1..Len(info) : info[i] = Head(labelled)
                      THEN info
                      ELSE Append(info, Head(labelled)),
                      Tail(labelled))

\* the spans of a returned dictionary in the order the code tests its keys
LabelledSpans(m, d) ==
    <<<<m.Start, m.End, "course">>>>
    \o (IF "o_mark" \in DOMAIN d
        THEN <<<<d["o_mark"].start_idx, d["o_mark"].end_idx, "o_mark">>>>
        ELSE <<>>)
    \o (IF "grade" \in DOMAIN d
        THEN <<<<d["grade"].start_idx, d["grade"].end_idx, "grade">>>>
        ELSE <<>>)

InitInfo ==
    /\ pc = "loaded"
    /\ \E g1 \in InfoGaps, g2 \in InfoGaps :
          /\ page_text = InfoPage(g1, g2)
          /\ \E om1 \in {<<>>, <<"3">>}, gr1 \in {<<>>, <<"B">>},
                om2 \in {<<>>, <<"3">>}, gr2 \in {<<>>, <<"B">>} :
                \E ms \in {InfoMatches(g1, om1, gr1, om2, gr2)} :
                    matches \in {ms, <<ms[2], ms[1]>>}
    /\ matches_copy = matches
    /\ match_index = 0
    /\ course_detail_info = <<>>
    /\ course_info = <<>>
    /\ course_variations = {}
    /\ NoLowInput
    /\ errors_file = <<>>
    /\ NoAccessInput
    /\ NoResolveInput
    /\ NoMatchInput
    /\ NoGapInput
    /\ NoTrimInput
    /\ NoParInput
    /\ NoZtaInput
    /\ NoPagesInput

\* the body of the loop for the next match of the copy: the fields of its
\* course are looked for after it, its spans are appended and the match is
\* removed from matches
ProcessMatch ==
    /\ match_index < Len(matches_copy)
    /\ \E m \in {matches_copy[match_index + 1]} :
          /\ \E d \in extract_course_details_in_gap(
                          page_text, m.o_mark, <<>>, m.grade, <<>>, m.Start,
                          m.End, SortedStarts(matches), <<>>) :
                /\ course_detail_info' = d
                /\ course_info' = AppendLabels(course_info, LabelledSpans(m, d))
          /\ matches' = RemoveFirst(matches, m)
    /\ match_index' = match_index + 1
    /\ pc' = "labelled"
    /\ UNCHANGED <<page_text, varsResolve, varsMatch, varsGap, varsTrim, varsPar,
                   varsZta, varsPages, matches_copy, course_variations,
                   varsLow, errors_file, varsAccess>>

NextInfo == ProcessMatch

SpecInfo == InitInfo /\ [][NextInfo]_vars

\* matches in the order of their start offsets
InTextOrder(ms) ==
    \A i \in 1..Len(ms) : \A j \in i..Len(ms) : ms[i].Start <= ms[j].Start

\* the match the loop took last
LastMatch == matches_copy[match_index]

\* the end of the gap window of a course span: the start of the next course
\* span of the page in text order, or 20 characters after the span
GapEnd(m) ==
    LET later == {matches_copy[i].Start : i \in 1..Len(matches_copy)}
                     \cap {k \in 0..Len(page_text) : k > m.Start}
    IN  IF later = {} THEN m.End + 20
        ELSE CHOOSE k \in later : \A j \in later : k <= j

\* C24: every span extracted for a course span starts at or after the end of
\* the course span and ends at or before the start of the next course span
\* of the page in text order, or within 20 characters when there is none,
\* whatever the order in which the matches are processed and removed
SpansInsideGapWindow ==
    pc = "labelled" =>
        \A key \in DOMAIN course_detail_info :
            /\ course_detail_info[key].start_idx >= LastMatch.End
            /\ course_detail_info[key].end_idx <= GapEnd(LastMatch)

\* the part of C24 that holds: the same when the matches are processed in
\* text order
SpansInsideGapWindowInTextOrder ==
    (pc = "labelled" /\ InTextOrder(matches_copy)) =>
        \A key \in DOMAIN course_detail_info :
            /\ course_detail_info[key].start_idx >= LastMatch.End
            /\ course_detail_info[key].end_idx <= GapEnd(LastMatch)

(***************************************************************************)
(* Calls of trim_by_words                                                  *)
(***************************************************************************)
\* the tokens of the match texts: plain words, stop words, a single
\* character, a token with a plus sign, a Roman and an Arabic numeral
MatchWords ==
    {<<"a", "b">>, <<"z", "e">>, <<"o", "f">>, <<"t", "h", "e">>, <<"z">>,
     <<"b", "+">>, <<"I", "I">>, <<"2">>}

MaxMatchWords == 3

MatchTexts ==
    {join(ws) : ws \in UNION {[1..n -> MatchWords] : n \in 2..MaxMatchWords}}

\* canonical values of two tokens
TrimCourses ==
    {<<"a", "b", " ", "f", "e">>, <<"a", "b", " ", "I", "I">>,
     <<"a", "b", " ", "0", "2">>, <<"b", "+", " ", "f", "e">>}

InitTrim ==
    /\ pc = "loaded"
    /\ page_text = <<>>
    /\ NoResolveInput
    /\ NoGapInput
    /\ NoParInput
    /\ NoZtaInput
    /\ NoPagesInput
    /\ NoRestInput
    /\ course_name \in TrimCourses
    /\ course_list = {}
    /\ result = <<>>
    /\ start_no_space = 0
    /\ end_no_space = 0
    /\ original = <<0, 0>>
    /\ positions = <<>>
    /\ searched = FALSE
    /\ low_confidence_matches = <<>>
    /\ best_match_text \in MatchTexts
    /\ best_trimmed_match = <<>>
    /\ raised = ""

\* one call of trim_by_words(course_name, best_match_text)
TrimByWords ==
    /\ pc = "loaded"
    /\ \E r \in {trim_by_words(course_name, best_match_text)} :
           /\ best_trimmed_match' = r.value
           /\ raised' = r.raised
    /\ pc' = "trimmed"
    /\ UNCHANGED <<page_text, varsResolve, varsMatch, varsGap, varsPar, varsZta,
                   varsPages, varsRest, best_match_text>>

NextTrim == TrimByWords

SpecTrim == InitTrim /\ [][NextTrim]_vars

\* C9: a match of two or more tokens trimmed against a canonical value of two
\* or more tokens comes back without an exception and with at least one token
TrimmerNonEmpty ==
    (/\ pc = "trimmed"
     /\ Len(split(course_name)) >= 2
     /\ Len(split(best_match_text)) >= 2)
        => (raised = "" /\ split(best_trimmed_match) # <<>>)

(***************************************************************************)
(* process_files_in_parallel                                               *)
(***************************************************************************)
NumDocs == 3

\* the discard records the resolution of one document appends
MaxDiscards == 1

\* int(os.getenv('MAX_WORKERS', 5))
max_workers == 5

\* the number of shards that starts an aggregation before the last document
AggregateThreshold == 50

\* documents whose tasks have returned and been collected one after the other
\* before the first step: their shards wait in the temporary directory, short
\* of the threshold by the documents still to be processed
EarlierDocs == AggregateThreshold - NumDocs

\* the documents of the folder
Docs == 1..(EarlierDocs + NumDocs)

total_files == EarlierDocs + NumDocs

\* the tasks a worker thread is running
Running ==
    {d \in Docs : futures[d] \in {"process_pdf_file", "save_raw", "dump_raw", "load",
                                  "correct", "dump_corrected", "lock",
                                  "save_skipped"}}

\* the tasks that have returned or raised
Settled == {d \in Docs : futures[d] \in {"done", "returned_empty", "failed"}}

\* the tasks that hold their shard open for writing
Writing == {d \in Docs : futures[d] \in {"dump_raw", "dump_corrected"}}

\* the tasks inside the with-lock block
LockHolders == {d \in Docs : futures[d] = "save_skipped"}

\* the shards listed in the temporary directory
temp_files == {d \in Docs : temp_dir[d] # "none"}

\* the store cleared, every document submitted, the main thread waiting for
\* the next future to complete
InitPar ==
    /\ pc = "loaded"
    /\ page_text = <<>>
    /\ NoResolveInput
    /\ NoMatchInput
    /\ NoGapInput
    /\ NoTrimInput
    /\ NoZtaInput
    /\ NoPagesInput
    /\ NoRestInput
    /\ futures = [d \in Docs |-> IF d <= EarlierDocs THEN "done" ELSE "pending"]
    /\ temp_dir = [d \in Docs |-> IF d <= EarlierDocs THEN "corrected" ELSE "none"]
    /\ corrected_file = {}
    /\ all_matches = 1..EarlierDocs
    /\ completed_files = EarlierDocs
    /\ main = "as_completed"
    /\ listed = {}
    /\ temp_path = 0
    /\ combined_data = {}

\* a worker thread takes the task of a document
StartTask(d) ==
    /\ futures[d] = "pending"
    /\ Cardinality(Running) < max_workers
    /\ futures' = [futures EXCEPT ![d] = "process_pdf_file"]
    /\ UNCHANGED <<pc, page_text, varsResolve, varsMatch, varsGap, varsTrim,
                   varsZta, varsPages, varsRest, temp_dir, corrected_file, all_matches,
                   completed_files, main, varsAgg>>

\* process_pdf_file returns its list: the document was read, and an exception
\* of the matching was caught inside it
ProcessPdfFile(d) ==
    /\ futures[d] = "process_pdf_file"
    /\ futures' = [futures EXCEPT ![d] = "save_raw"]
    /\ UNCHANGED <<pc, page_text, varsResolve, varsMatch, varsGap, varsTrim,
                   varsZta, varsPages, varsRest, temp_dir, corrected_file, all_matches,
                   completed_files, main, varsAgg>>

\* the document cannot be opened or decoded: the handler runs and the return
\* statement reads a local that was never bound
ProcessPdfFileRaises(d) ==
    /\ futures[d] = "process_pdf_file"
    /\ futures' = [futures EXCEPT ![d] = "failed"]
    /\ UNCHANGED <<pc, page_text, varsResolve, varsMatch, varsGap, varsTrim,
                   varsZta, varsPages, varsRest, temp_dir, corrected_file, all_matches,
                   completed_files, main, varsAgg>>

\* file.write after open(path, 'w'): the content reaches the shard unless the
\* entry was unlinked while the file was open
Dump(d, content) ==
    [temp_dir EXCEPT ![d] = IF @ = "partial" THEN content ELSE @]

\* the raw copy is saved and the shard is opened for writing
SaveRaw(d) ==
    /\ futures[d] = "save_raw"
    /\ futures' = [futures EXCEPT ![d] = "dump_raw"]
    /\ temp_dir' = [temp_dir EXCEPT ![d] = "partial"]
    /\ UNCHANGED <<pc, page_text, varsResolve, varsMatch, varsGap, varsTrim,
                   varsZta, varsPages, varsRest, corrected_file, all_matches,
                   completed_files, main, varsAgg>>

\* the entries as matched are written and the shard is closed
DumpRaw(d) ==
    /\ futures[d] = "dump_raw"
    /\ futures' = [futures EXCEPT ![d] = "load"]
    /\ temp_dir' = Dump(d, "raw")
    /\ UNCHANGED <<pc, page_text, varsResolve, varsMatch, varsGap, varsTrim,
                   varsZta, varsPages, varsRest, corrected_file, all_matches,
                   completed_files, main, varsAgg>>

\* the shard is read back; when it is gone the task returns an empty list
Load(d) ==
    /\ futures[d] = "load"
    /\ futures' = [futures EXCEPT ![d] =
                      IF temp_dir[d] = "raw" THEN "correct" ELSE "returned_empty"]
    /\ UNCHANGED <<pc, page_text, varsResolve, varsMatch, varsGap, varsTrim,
                   varsZta, varsPages, varsRest, temp_dir, corrected_file, all_matches,
                   completed_files, main, varsAgg>>

\* the number of candidates of a document that its resolution discards: none
\* in the earlier documents, one in every second of the others
DiscardCount(d) ==
    IF d <= EarlierDocs THEN 0 ELSE ((d + 1) % 2) * MaxDiscards

\* the first n discard records convert_entities_to_tuples appends for a
\* document
Discards(d, n) == [i \in 1..n |-> [document |-> d, entity |-> i]]

\* conflict resolution and boundary validation succeed: the discard records
\* of the document are appended to the list every task was submitted with,
\* the corrected copy is saved and the shard is opened for writing again
Correct(d) ==
    /\ futures[d] = "correct"
    /\ futures' = [futures EXCEPT ![d] = "dump_corrected"]
    /\ temp_dir' = [temp_dir EXCEPT ![d] = "partial"]
    /\ skipped_entities' = skipped_entities \o Discards(d, DiscardCount(d))
    /\ UNCHANGED <<pc, page_text, text, doc, entities, group_entry, spans_set,
                   reason_count, correctInaPage, problemsInaPage, varsMatch,
                   varsGap, varsTrim, varsZta, varsPages, varsRest,
                   corrected_file, all_matches, completed_files, main, varsAgg>>

\* conflict resolution or boundary validation raises, after the discard
\* records appended so far
CorrectRaises(d) ==
    /\ futures[d] = "correct"
    /\ futures' = [futures EXCEPT ![d] = "failed"]
    /\ \E n \in 0..DiscardCount(d) :
          skipped_entities' = skipped_entities \o Discards(d, n)
    /\ UNCHANGED <<pc, page_text, text, doc, entities, group_entry, spans_set,
                   reason_count, correctInaPage, problemsInaPage, varsMatch,
                   varsGap, varsTrim, varsZta, varsPages, varsRest, temp_dir,
                   corrected_file, all_matches, completed_files, main, varsAgg>>

\* the validated entries are written and the shard is closed
DumpCorrected(d) ==
    /\ futures[d] = "dump_corrected"
    /\ futures' = [futures EXCEPT ![d] = "lock"]
    /\ temp_dir' = Dump(d, "corrected")
    /\ UNCHANGED <<pc, page_text, varsResolve, varsMatch, varsGap, varsTrim,
                   varsZta, varsPages, varsRest, corrected_file, all_matches,
                   completed_files, main, varsAgg>>

\* with lock: the task enters when no other task is inside
AcquireLock(d) ==
    /\ futures[d] = "lock"
    /\ LockHolders = {}
    /\ futures' = [futures EXCEPT ![d] = "save_skipped"]
    /\ UNCHANGED <<pc, page_text, varsResolve, varsMatch, varsGap, varsTrim,
                   varsZta, varsPages, varsRest, temp_dir, corrected_file, all_matches,
                   completed_files, main, varsAgg>>

\* the entries save_skipped_entities_to_file makes of the list it is given,
\* with the task that writes them
Written(d) ==
    [i \in 1..Len(skipped_entities) |->
        [document |-> skipped_entities[i].document,
         entity |-> skipped_entities[i].entity, task |-> d]]

\* save_skipped_entities_to_file reads the error store, extends it with the
\* entries of the list and writes it back, the lock is released and the task
\* returns the validated entries
SaveSkipped(d) ==
    /\ futures[d] = "save_skipped"
    /\ futures' = [futures EXCEPT ![d] = "done"]
    /\ errors_file' = errors_file \o Written(d)
    /\ UNCHANGED <<pc, page_text, varsResolve, varsMatch, varsGap, varsTrim,
                   varsZta, varsPages, varsInfo, course_variations, varsLow,
                   varsAccess, temp_dir, corrected_file, all_matches,
                   completed_files, main, varsAgg>>

\* one turn of the as_completed loop: future.result() returns the entries of a
\* task or raises its exception; past the threshold, or after the last
\* document, aggregate_temp_files_to_corrected is entered and lists the shards
Collect(d) ==
    /\ main = "as_completed"
    /\ d \in Settled
    /\ d \notin all_matches
    /\ IF futures[d] = "failed"
       THEN /\ main' = "raised"
            /\ UNCHANGED <<all_matches, completed_files, listed>>
       ELSE /\ all_matches' = all_matches \cup {d}
            /\ completed_files' = completed_files + 1
            /\ IF \/ Cardinality(temp_files) >= AggregateThreshold
                  \/ completed_files' = total_files
               THEN main' = "aggregate" /\ listed' = temp_files
               ELSE UNCHANGED <<main, listed>>
    /\ UNCHANGED <<pc, page_text, varsResolve, varsMatch, varsGap, varsTrim,
                   varsZta, varsPages, varsRest, futures, temp_dir, corrected_file,
                   temp_path, combined_data>>

\* aggregate_temp_files_to_corrected, the try block of the next listed shard
\* (the listing is taken in the order of the documents): the file is opened
\* and decoded; a missing or half-written file raises and adds nothing
ReadShard(d) ==
    /\ main = "aggregate"
    /\ temp_path = 0
    /\ d \in listed
    /\ \A e \in listed : d <= e
    /\ temp_path' = d
    /\ combined_data' =
          (IF temp_dir[d] \in {"raw", "corrected"}
           THEN combined_data \cup {<<d, temp_dir[d]>>}
           ELSE combined_data)
    /\ UNCHANGED <<pc, page_text, varsResolve, varsMatch, varsGap, varsTrim,
                   varsZta, varsPages, varsRest, futures, temp_dir, corrected_file,
                   all_matches, completed_files, main, listed>>

\* its finally block: os.remove
RemoveShard ==
    /\ main = "aggregate"
    /\ temp_path # 0
    /\ temp_dir' = [temp_dir EXCEPT ![temp_path] = "none"]
    /\ listed' = listed \ {temp_path}
    /\ temp_path' = 0
    /\ UNCHANGED <<pc, page_text, varsResolve, varsMatch, varsGap, varsTrim,
                   varsZta, varsPages, varsRest, futures, corrected_file, all_matches,
                   completed_files, main, combined_data>>

\* after the last listed shard the store is read, extended and written back
ExtendStore ==
    /\ main = "aggregate"
    /\ temp_path = 0
    /\ listed = {}
    /\ corrected_file' = corrected_file \cup combined_data
    /\ combined_data' = {}
    /\ main' = "as_completed"
    /\ UNCHANGED <<pc, page_text, varsResolve, varsMatch, varsGap, varsTrim,
                   varsZta, varsPages, varsRest, futures, temp_dir, all_matches,
                   completed_files, listed, temp_path>>

\* the executor is left once every task has settled: the function returns
\* all_matches after the last turn of the loop, or the exception goes on to
\* the caller
Exit ==
    /\ pc = "loaded"
    /\ Settled = Docs
    /\ \/ main = "raised" /\ UNCHANGED main
       \/ main = "as_completed" /\ completed_files = total_files /\ main' = "returned"
    /\ pc' = "finished"
    /\ UNCHANGED <<page_text, varsResolve, varsMatch, varsGap, varsTrim,
                   varsZta, varsPages, varsRest, futures, temp_dir, corrected_file,
                   all_matches, completed_files, varsAgg>>

NextPar ==
    \/ \E d \in Docs : StartTask(d)
    \/ \E d \in Docs : ProcessPdfFile(d)
    \/ \E d \in Docs : ProcessPdfFileRaises(d)
    \/ \E d \in Docs : SaveRaw(d)
    \/ \E d \in Docs : DumpRaw(d)
    \/ \E d \in Docs : Load(d)
    \/ \E d \in Docs : Correct(d)
    \/ \E d \in Docs : CorrectRaises(d)
    \/ \E d \in Docs : DumpCorrected(d)
    \/ \E d \in Docs : AcquireLock(d)
    \/ \E d \in Docs : SaveSkipped(d)
    \/ \E d \in Docs : Collect(d)
    \/ \E d \in Docs : ReadShard(d)
    \/ RemoveShard
    \/ ExtendStore
    \/ Exit

SpecPar == InitPar /\ [][NextPar]_vars

\* C10: when process_files_in_parallel is left, every task has settled, and
\* the validated entries of every document whose task did not fail are in the
\* returned list and in the aggregated store
FailureStaysInTask ==
    pc = "finished"
        => /\ Settled = Docs
           /\ \A d \in Docs :
                  futures[d] = "done"
                      => (d \in all_matches /\ <<d, "corrected">> \in corrected_file)

\* the part of C10 the executor keeps: no task is left unfinished
SiblingsRunToCompletion == pc = "finished" => Settled = Docs

\* C11: while a task holds its shard open for writing the aggregation does
\* not work on that shard, and at most one task is inside the block that
\* appends to the error store
SinkAccessExclusive ==
    /\ \A d \in Writing : temp_path # d
    /\ Cardinality(LockHolders) <= 1

\* the part of C11 the lock keeps: the error store has one writer at a time
ErrorStoreExclusive == Cardinality(LockHolders) <= 1

\* C12: after a run in which every task has returned its validated entries,
\* the store holds the validated entries of every document, no entries as
\* matched, and no shard is left
CompactionExact ==
    (pc = "finished" /\ main = "returned" /\ \A d \in Docs : futures[d] = "done")
        => /\ \A d \in Docs : <<d, "corrected">> \in corrected_file
           /\ \A d \in Docs : <<d, "raw">> \notin corrected_file
           /\ temp_files = {}

\* the part of C12 the last aggregation keeps: no shard is left after a run in
\* which every task has returned
NoShardLeft ==
    (pc = "finished" /\ main = "returned") => temp_files = {}

\* how often a discard record is in the error store
TimesWritten(rec) ==
    Cardinality({i \in 1..Len(errors_file) :
                    /\ errors_file[i].document = rec.document
                    /\ errors_file[i].entity = rec.entity})

\* C29: every entry of the error store was written by the task of its own
\* document, and after the run the discard records of every document whose
\* task has returned are in the error store exactly once
DiscardWrittenOnce ==
    /\ \A i \in 1..Len(errors_file) :
           errors_file[i].task = errors_file[i].document
    /\ pc = "finished" =>
           \A i \in 1..Len(skipped_entities) :
               futures[skipped_entities[i].document] = "done"
                   => TimesWritten(skipped_entities[i]) = 1

\* the part of C29 that holds: after the run the discard records of every
\* document whose task has returned are in the error store at least once
DiscardWritten ==
    pc = "finished" =>
        \A i \in 1..Len(skipped_entities) :
            futures[skipped_entities[i].document] = "done"
                => TimesWritten(skipped_entities[i]) >= 1

(***************************************************************************)
(* DeviceManager and Device (src/zta_project)                             *)
(***************************************************************************)
\* the device the calls are made for
device_id == "dev1"

\* outcomes of random.randint(a, b) that are followed: both ends and the middle
randint(a, b) == {a, (a + b) \div 2, b}

\* the most entries of compliance_checks that one posture check flips
MaxFlips == 1

CheckNames ==
    {"os_updated", "antivirus_active", "encryption_enabled", "firewall_enabled",
     "screen_lock_enabled", "unauthorized_software"}

\* the entries of compliance_checks that count as good
good_checks(checks) ==
    Cardinality({c \in CheckNames :
                    IF c = "unauthorized_software" THEN ~checks[c] ELSE checks[c]})

\* Device._calculate_security_posture: good_checks / total_checks against
\* 0.90, 0.75 and 0.60
calculate_security_posture(checks) ==
    LET good == good_checks(checks)
        total == Cardinality(CheckNames)
    IN  IF good * 100 >= 90 * total THEN "excellent"
        ELSE IF good * 100 >= 75 * total THEN "good"
        ELSE IF good * 100 >= 60 * total THEN "fair"
        ELSE "poor"

\* the fields of the device as one record
Device ==
    [trust_score |-> trust_score, is_compliant |-> is_compliant,
     compliance_checks |-> compliance_checks, security_posture |-> security_posture]

\* Device.perform_posture_check: the entries in flip change their value, up and
\* down are the random changes of the trust score
perform_posture_check(dev, flip, up, down) ==
    LET checks == [c \in CheckNames |->
                      IF c \in flip THEN ~dev.compliance_checks[c]
                      ELSE dev.compliance_checks[c]]
        compliant == good_checks(checks) * 10 >= 7 * Cardinality(CheckNames)
    IN  [trust_score |-> IF compliant THEN Min(100, dev.trust_score + up)
                         ELSE Max(0, dev.trust_score - down),
         is_compliant |-> compliant,
         compliance_checks |-> checks,
         security_posture |-> calculate_security_posture(checks)]

\* Device.record_incident
severity_impact(severity) ==
    CASE severity = "low" -> 5
      [] severity = "medium" -> 15
      [] severity = "high" -> 30
      [] severity = "critical" -> 50
      [] OTHER -> 10

record_incident(dev, severity) ==
    [dev EXCEPT !.trust_score = Max(0, @ - severity_impact(severity)),
                !.is_compliant = FALSE]

\* DeviceManager.quarantine_device: the manager after the call
quarantine_device(dm, id) ==
    [quarantined_devices |-> dm.quarantined_devices \cup {id},
     device |-> IF id \in devices THEN record_incident(dm.device, "high")
                ELSE dm.device]

\* DeviceManager.perform_posture_assessment: the result of the call and the
\* manager after it
perform_posture_assessment(id, flip, up, down) ==
    LET dm == [quarantined_devices |-> quarantined_devices, device |-> Device]
    IN  IF id \notin devices
        THEN [compliant |-> FALSE, reason |-> "Device not registered", dm |-> dm]
        ELSE IF id \in quarantined_devices
        THEN [compliant |-> FALSE, reason |-> "Device is quarantined", dm |-> dm]
        ELSE LET checked == perform_posture_check(Device, flip, up, down)
                 after == [dm EXCEPT !.device = checked]
             IN  [compliant |-> checked.is_compliant,
                  reason |-> "",
                  dm |-> IF checked.trust_score < 30 \/ checked.security_posture = "poor"
                         THEN quarantine_device(after, id)
                         ELSE after]

\* the manager dm becomes the state
SetManager(dm) ==
    /\ quarantined_devices' = dm.quarantined_devices
    /\ trust_score' = dm.device.trust_score
    /\ is_compliant' = dm.device.is_compliant
    /\ compliance_checks' = dm.device.compliance_checks
    /\ security_posture' = dm.device.security_posture

Flips == {f \in SUBSET CheckNames : Cardinality(f) <= MaxFlips}

\* a DeviceManager with no device yet
InitDevice ==
    /\ pc = "loaded"
    /\ page_text = <<>>
    /\ NoResolveInput
    /\ NoMatchInput
    /\ NoGapInput
    /\ NoTrimInput
    /\ NoParInput
    /\ NoZtaInput
    /\ NoPagesInput
    /\ NoRestInput

\* Device(...) followed by register_device, the random fields of the device
\* drawn from the given sets
RegisterDeviceFrom(scores, checks) ==
    /\ device_id \notin devices
    /\ devices' = devices \cup {device_id}
    /\ trust_score' \in scores
    /\ is_compliant' \in BOOLEAN
    /\ compliance_checks' \in checks
    /\ security_posture' = calculate_security_posture(compliance_checks')
    /\ patched' = FALSE
    /\ call' = [op |-> "register_device", quarantined |-> FALSE, patched |-> FALSE,
                result |-> TRUE]
    /\ UNCHANGED <<pc, page_text, varsResolve, varsMatch, varsGap, varsTrim,
                   varsPar, varsPages, varsRest, quarantined_devices>>

RegisterDevice == RegisterDeviceFrom(randint(60, 100), [CheckNames -> BOOLEAN])

\* perform_posture_assessment, the random changes drawn from the given sets
PerformPostureAssessmentFrom(flips, ups, downs) ==
    /\ \E flip \in flips, up \in ups, down \in downs :
          \E a \in {perform_posture_assessment(device_id, flip, up, down)} :
             /\ SetManager(a.dm)
             /\ patched' = (patched /\ a.reason # "")
             /\ call' = [op |-> "perform_posture_assessment",
                         quarantined |-> device_id \in quarantined_devices,
                         patched |-> patched, result |-> a.compliant]
    /\ UNCHANGED <<pc, page_text, varsResolve, varsMatch, varsGap, varsTrim,
                   varsPar, varsPages, varsRest, devices>>

PerformPostureAssessment ==
    PerformPostureAssessmentFrom(Flips, randint(1, 5), randint(5, 15))

\* quarantine_device, as detect_malware_threat calls it on a high threat level
QuarantineDevice ==
    /\ \E dm \in {quarantine_device([quarantined_devices |-> quarantined_devices,
                                    device |-> Device], device_id)} :
          SetManager(dm)
    /\ patched' = (patched /\ device_id \notin devices)
    /\ call' = [op |-> "quarantine_device",
                quarantined |-> device_id \in quarantined_devices,
                patched |-> patched, result |-> TRUE]
    /\ UNCHANGED <<pc, page_text, varsResolve, varsMatch, varsGap, varsTrim,
                   varsPar, varsPages, varsRest, devices>>

\* Device.patch_device
PatchDevice ==
    /\ device_id \in devices
    /\ compliance_checks' = [c \in CheckNames |-> c # "unauthorized_software"]
    /\ is_compliant' = TRUE
    /\ security_posture' = "excellent"
    /\ trust_score' = Max(85, Min(100, trust_score + 40))
    /\ patched' = TRUE
    /\ call' = [op |-> "patch_device",
                quarantined |-> device_id \in quarantined_devices,
                patched |-> patched, result |-> TRUE]
    /\ UNCHANGED <<pc, page_text, varsResolve, varsMatch, varsGap, varsTrim,
                   varsPar, varsPages, varsRest, devices, quarantined_devices>>

\* release_from_quarantine, the random changes drawn from the given sets
ReleaseFromQuarantineFrom(flips, ups, downs) ==
    /\ \E flip \in flips, up \in ups, down \in downs :
          \E a \in {perform_posture_assessment(device_id, flip, up, down)} :
             \E released \in {/\ device_id \in devices
                              /\ a.compliant
                              /\ a.dm.device.trust_score >= 60} :
                /\ SetManager([a.dm EXCEPT !.quarantined_devices =
                                  IF released THEN @ \ {device_id} ELSE @])
                /\ patched' = (patched /\ a.reason # "")
                /\ call' = [op |-> "release_from_quarantine",
                            quarantined |-> device_id \in quarantined_devices,
                            patched |-> patched, result |-> released]
    /\ UNCHANGED <<pc, page_text, varsResolve, varsMatch, varsGap, varsTrim,
                   varsPar, varsPages, varsRest, devices>>

ReleaseFromQuarantine ==
    ReleaseFromQuarantineFrom(Flips, randint(1, 5), randint(5, 15))

NextDevice ==
    \/ RegisterDevice
    \/ PerformPostureAssessment
    \/ QuarantineDevice
    \/ PatchDevice
    \/ ReleaseFromQuarantine

SpecDevice == InitDevice /\ [][NextDevice]_vars

\* the last call was release_from_quarantine
Released == call # <<>> /\ call.op = "release_from_quarantine"

\* C13: release_from_quarantine called for a registered, quarantined device
\* that patch_device has remediated returns True and takes the device out of
\* quarantined_devices
ReleaseAfterRemediation ==
    (/\ Released
     /\ device_id \in devices
     /\ call.quarantined
     /\ call.patched)
        => (call.result /\ device_id \notin quarantined_devices)

\* what the call does for a quarantined device: it returns False and the
\* device stays quarantined
QuarantineIsKept ==
    (Released /\ call.quarantined)
        => (~call.result /\ device_id \in quarantined_devices)

(***************************************************************************)
(* AccessController, IdentityManager and the device manager                *)
(* (src/zta_project)                                                       *)
(***************************************************************************)
\* the user and the application the calls are made for
user_id == "user1"

app_id == "app1"

\* IdentityManager.session_timeout, in minutes
session_timeout == 30

\* the sessions that are created
MaxSessions == 2

\* the session tokens: secrets.token_hex(32)
SessionTokens == 1..MaxSessions

\* the minutes between two values of datetime.now() that differ
TickMinutes == 40

\* the last value of datetime.now()
MaxTime == 40

\* the values datetime.now() can return after it has returned t
Clock(t) == {t, Min(t + TickMinutes, MaxTime)}

\* the user fields that authentication and the permission check read: they
\* are inputs of each call. An employee with a password, an executive with a
\* second factor, and a locked employee with a high risk score
UserStates ==
    {[failed_login_attempts |-> 0, risk_score |-> 10, access_level |-> 2,
      authentication_method |-> "password"],
     [failed_login_attempts |-> 0, risk_score |-> 10, access_level |-> 4,
      authentication_method |-> "mfa"],
     [failed_login_attempts |-> 3, risk_score |-> 60, access_level |-> 2,
      authentication_method |-> "password"]}

SecurityLevels == {"low", "critical"}

\* Application._determine_required_access
required_access_level(security_level) ==
    CASE security_level = "low" -> 1
      [] security_level = "medium" -> 2
      [] security_level = "high" -> 3
      [] security_level = "critical" -> 4
      [] OTHER -> 1

\* Application._determine_required_auth
required_auth_methods(security_level) ==
    CASE security_level = "critical" -> {"mfa", "biometric", "certificate"}
      [] security_level = "high" -> {"mfa", "biometric"}
      [] security_level = "medium" -> {"mfa", "password"}
      [] OTHER -> {"password"}

\* Application.check_access_permission: granted
check_access_permission(security_level, user, device_trust_score) ==
    /\ user.access_level >= required_access_level(security_level)
    /\ user.authentication_method \in required_auth_methods(security_level)
    /\ device_trust_score >=
           (IF security_level \in {"critical", "high"} THEN 70 ELSE 50)
    /\ user.risk_score <=
           (IF security_level \in {"critical", "high"} THEN 30 ELSE 50)

\* del self.active_sessions[session_token]
DelSession(sessions, session_token) ==
    [t \in DOMAIN sessions \ {session_token} |-> sessions[t]]

\* IdentityManager.validate_session at the time t: the result and the
\* sessions after the call
validate_session(sessions, session_token, t) ==
    IF session_token \notin DOMAIN sessions
    THEN [valid |-> FALSE, reason |-> "Session not found",
          active_sessions |-> sessions]
    ELSE IF t > sessions[session_token].expires_at
    THEN [valid |-> FALSE, reason |-> "Session expired",
          active_sessions |-> DelSession(sessions, session_token)]
    ELSE [valid |-> TRUE, reason |-> "", active_sessions |-> sessions]

\* IdentityManager.continuous_authentication at the time t; anomalous is
\* anomaly_score > 0.7
continuous_authentication(sessions, session_token, t, anomalous) ==
    IF ~enable_continuous_auth
    THEN [ok |-> TRUE, active_sessions |-> sessions]
    ELSE LET v == validate_session(sessions, session_token, t)
         IN  IF ~v.valid
             THEN [ok |-> FALSE, active_sessions |-> v.active_sessions]
             ELSE IF sessions[session_token].user_id \notin users
             THEN [ok |-> FALSE, active_sessions |-> v.active_sessions]
             ELSE IF anomalous
             THEN [ok |-> FALSE,
                   active_sessions |-> DelSession(v.active_sessions,
                                                  session_token)]
             ELSE [ok |-> TRUE, active_sessions |-> v.active_sessions]

\* a validation that leaves the quarantine to the policy check of the caller
MutValidateDeviceForAccess(id, required_trust_score) ==
    /\ id \in devices
    /\ is_compliant
    /\ trust_score >= required_trust_score

\* DeviceManager.validate_device_for_access: valid
validate_device_for_access(id, required_trust_score) ==
    /\ id \in devices
    /\ id \notin quarantined_devices
    /\ is_compliant
    /\ trust_score >= required_trust_score

\* AccessController.request_access: access_granted and the sessions after the
\* call; t1 and t2 are the values of datetime.now() in validate_session and in
\* continuous_authentication
request_access(session_token, id, app, user, t1, t2, anomalous) ==
    LET v == validate_session(active_sessions, session_token, t1)
        deny == [access_granted |-> FALSE, active_sessions |-> v.active_sessions]
    IN  IF ~v.valid THEN deny
        ELSE IF active_sessions[session_token].user_id \notin users THEN deny
        ELSE IF ~validate_device_for_access(id, min_trust_score) THEN deny
        ELSE IF policies /\ id \in quarantined_devices THEN deny
        ELSE IF app \notin DOMAIN applications THEN deny
        ELSE IF ~check_access_permission(applications[app], user, trust_score)
        THEN deny
        ELSE LET c == continuous_authentication(v.active_sessions,
                                                session_token, t2, anomalous)
             IN  [access_granted |-> c.ok, active_sessions |-> c.active_sessions]

\* an environment with its managers and its controller constructed
InitAccess == InitDevice

RegisterUser ==
    /\ users' = users \cup {user_id}
    /\ call' = [op |-> "register_user", result |-> TRUE]
    /\ UNCHANGED <<pc, page_text, varsResolve, varsMatch, varsGap, varsTrim,
                   varsPar, varsPages, varsInfo, course_variations, varsLow,
                   errors_file, devices, quarantined_devices, trust_score,
                   is_compliant, compliance_checks, security_posture, patched,
                   active_sessions, enable_continuous_auth, now,
                   min_trust_score, policies, applications>>

\* Application(...) followed by register_application
RegisterApplication ==
    /\ \E security_level \in SecurityLevels :
          applications' = [a \in DOMAIN applications \cup {app_id} |->
                              IF a = app_id THEN security_level
                              ELSE applications[a]]
    /\ call' = [op |-> "register_application", result |-> TRUE]
    /\ UNCHANGED <<pc, page_text, varsResolve, varsMatch, varsGap, varsTrim,
                   varsPar, varsPages, varsInfo, course_variations, varsLow,
                   errors_file, devices, quarantined_devices, trust_score,
                   is_compliant, compliance_checks, security_posture, patched,
                   users, active_sessions, enable_continuous_auth, now,
                   min_trust_score, policies>>

\* authenticate_user: an unknown or locked user and a failed authentication
\* get no session; success is the outcome of User.authenticate, and the
\* session gets a token that is not in use
AuthenticateUser ==
    /\ \E user \in UserStates, success \in BOOLEAN, t \in Clock(now) :
          /\ now' = t
          /\ IF /\ user_id \in users
                /\ user.failed_login_attempts < 3
                /\ success
                /\ DOMAIN active_sessions # SessionTokens
             THEN \E session_token \in SessionTokens \ DOMAIN active_sessions :
                     /\ \A other \in SessionTokens \ DOMAIN active_sessions :
                           session_token <= other
                     /\ active_sessions' =
                           [s \in DOMAIN active_sessions \cup {session_token} |->
                               IF s = session_token
                               THEN [user_id |-> user_id,
                                     expires_at |-> t + session_timeout]
                               ELSE active_sessions[s]]
                     /\ call' = [op |-> "authenticate_user", result |-> TRUE]
             ELSE /\ call' = [op |-> "authenticate_user", result |-> FALSE]
                  /\ UNCHANGED active_sessions
    /\ \/ user_id \notin users
       \/ DOMAIN active_sessions # SessionTokens
    /\ UNCHANGED <<pc, page_text, varsResolve, varsMatch, varsGap, varsTrim,
                   varsPar, varsPages, varsInfo, course_variations, varsLow,
                   errors_file, devices, quarantined_devices, trust_score,
                   is_compliant, compliance_checks, security_posture, patched,
                   users, enable_continuous_auth, min_trust_score, policies,
                   applications>>

\* update_policy('block_quarantined_devices', value)
UpdatePolicy ==
    /\ \E value \in BOOLEAN : policies' = value
    /\ call' = [op |-> "update_policy", result |-> TRUE]
    /\ UNCHANGED <<pc, page_text, varsResolve, varsMatch, varsGap, varsTrim,
                   varsPar, varsPages, varsInfo, course_variations, varsLow,
                   errors_file, devices, quarantined_devices, trust_score,
                   is_compliant, compliance_checks, security_posture, patched,
                   users, active_sessions, enable_continuous_auth, now,
                   min_trust_score, applications>>

\* disable_zta_controls and enable_zta_controls of the experiment
SetZtaControls ==
    /\ \E enabled \in BOOLEAN :
          /\ policies' = enabled
          /\ enable_continuous_auth' = enabled
          /\ min_trust_score' = IF enabled THEN 70 ELSE 0
    /\ call' = [op |-> "zta_controls", result |-> TRUE]
    /\ UNCHANGED <<pc, page_text, varsResolve, varsMatch, varsGap, varsTrim,
                   varsPar, varsPages, varsInfo, course_variations, varsLow,
                   errors_file, devices, quarantined_devices, trust_score,
                   is_compliant, compliance_checks, security_posture, patched,
                   users, active_sessions, now, applications>>

\* request_access for the device and the application, with a token in use or
\* not
RequestAccess ==
    /\ \E session_token \in SessionTokens, user \in UserStates, anomalous \in BOOLEAN,
          t1 \in Clock(now) :
          \E t2 \in Clock(t1) :
             \E r \in {request_access(session_token, device_id, app_id, user,
                                      t1, t2, anomalous)} :
                /\ active_sessions' = r.active_sessions
                /\ now' = IF r.access_granted /\ enable_continuous_auth
                          THEN t2 ELSE t1
                /\ call' = [op |-> "request_access",
                            result |-> r.access_granted,
                            session_token |-> session_token]
    /\ UNCHANGED <<pc, page_text, varsResolve, varsMatch, varsGap, varsTrim,
                   varsPar, varsPages, varsInfo, course_variations, varsLow,
                   errors_file, devices, quarantined_devices, trust_score,
                   is_compliant, compliance_checks, security_posture, patched,
                   users, enable_continuous_auth, min_trust_score, policies,
                   applications>>

\* the random fields of a device that are followed
AccessScores == {60, 90}

AccessChecks ==
    {[c \in CheckNames |-> c # "unauthorized_software"],
     [c \in CheckNames |-> c = "unauthorized_software"]}

AccessFlips == {{}, {"os_updated"}}

NextAccess ==
    \/ RegisterUser
    \/ RegisterApplication
    \/ AuthenticateUser
    \/ UpdatePolicy
    \/ SetZtaControls
    \/ RequestAccess
    \/ RegisterDeviceFrom(AccessScores, AccessChecks)
    \/ PerformPostureAssessmentFrom(AccessFlips, {5}, {15})
    \/ QuarantineDevice
    \/ PatchDevice
    \/ ReleaseFromQuarantineFrom(AccessFlips, {5}, {15})

SpecAccess == InitAccess /\ [][NextAccess]_vars

\* the last call was request_access and it returned access_granted = True
Granted == call # <<>> /\ call.op = "request_access" /\ call.result

\* C30: when request_access returns access_granted = True, the session token
\* is an unexpired entry of active_sessions, the device is registered,
\* compliant and not quarantined, and the application is registered, whatever
\* the block_quarantined_devices policy is
GrantRequiresValidState ==
    Granted =>
        /\ call.session_token \in DOMAIN active_sessions
        /\ now <= active_sessions[call.session_token].expires_at
        /\ device_id \in devices
        /\ is_compliant
        /\ device_id \notin quarantined_devices
        /\ app_id \in DOMAIN applications

\* access is granted while the policy does not block quarantined devices
GrantedWithoutBlockPolicy == Granted /\ ~policies

(***************************************************************************)
(* match_courses_to_pages: the matches of one page                         *)
(***************************************************************************)
\* the most matches of the page that are examined
MaxMatches == 3

\* the last offset of the page
MaxOffset == 5

\* matches as sliding_window_match returns them for the courses of the
\* document: a span of the page, the confidence in percent, and the length of
\* the matched text around the cut-off of 3 characters
PageMatches ==
    {m \in [Course : {"c1", "c2"}, Start : 0..MaxOffset, End : 0..MaxOffset,
            Confidence : {85, 100}, BestLen : {3, 4}] : m.Start < m.End}

\* [c for c in seen if c['Start Index'] != seen_start_idx]
RECURSIVE DropStart(_, _)
DropStart(seq, start) ==
    IF seq = <<>> THEN <<>>
    ELSE IF Head(seq).Start = start THEN DropStart(Tail(seq), start)
    ELSE <<Head(seq)>> \o DropStart(Tail(seq), start)

\* the new match beats an accepted one on confidence, then on length
Beats(match, seen_course) ==
    \/ match.Confidence > seen_course.Confidence
    \/ /\ match.Confidence = seen_course.Confidence
       /\ (match.End - match.Start) > (seen_course.End - seen_course.Start)

\* the loop over the accepted matches of the page as they were when the loop
\* was entered; st holds the lists as rebuilt so far and the overlap flag
RECURSIVE SeenLoop(_, _, _)
SeenLoop(st, seen, match) ==
    IF seen = <<>> THEN st
    ELSE LET seen_course == Head(seen)
         IN  IF Overlaps(match.Start, match.End, seen_course.Start, seen_course.End)
             THEN IF Beats(match, seen_course)
                  THEN SeenLoop([seen_courses |->
                                    Append(DropStart(st.seen_courses, seen_course.Start),
                                           match),
                                 result |->
                                    Append(DropStart(st.result, seen_course.Start), match),
                                 overlap |-> TRUE],
                                Tail(seen), match)
                  ELSE SeenLoop([st EXCEPT !.overlap = TRUE], Tail(seen), match)
             ELSE SeenLoop(st, Tail(seen), match)

\* the body of the loop over the matches of a page
MergeMatch(match) ==
    IF match.BestLen <= 3
    THEN [seen_courses |-> seen_courses, result |-> result, overlap |-> FALSE]
    ELSE LET st == SeenLoop([seen_courses |-> seen_courses, result |-> result,
                             overlap |-> FALSE], seen_courses, match)
         IN  IF st.overlap THEN st
             ELSE [st EXCEPT !.seen_courses = Append(@, match),
                             !.result = Append(@, match)]

InitPages ==
    /\ pc = "loaded"
    /\ page_text = <<>>
    /\ NoResolveInput
    /\ NoMatchInput
    /\ NoGapInput
    /\ NoTrimInput
    /\ NoParInput
    /\ NoZtaInput
    /\ NoPagesInput
    /\ NoRestInput

\* one match of the page is examined
ExamineMatch ==
    /\ examined < MaxMatches
    /\ \E match \in PageMatches :
          \E st \in {MergeMatch(match)} :
             /\ seen_courses' = st.seen_courses
             /\ result' = st.result
    /\ examined' = examined + 1
    /\ pc' = "merged"
    /\ UNCHANGED <<page_text, varsResolve, varsGap, varsTrim, varsPar, varsZta,
                   varsRest, course_name, course_list, start_no_space,
                   end_no_space, original, positions, searched,
                   low_confidence_matches>>

NextPages == ExamineMatch

SpecPages == InitPages /\ [][NextPages]_vars

\* C14: no two entries of the result of a page overlap, and no entry is in it
\* twice
PageResultDisjoint ==
    pc = "merged" =>
        \A i, j \in 1..Len(result) :
            i # j => /\ ~Overlaps(result[i].Start, result[i].End,
                                  result[j].Start, result[j].End)
                     /\ result[i] # result[j]

\* the part of C14 that holds when a new match overlaps at most one accepted
\* match: up to two examined matches leave no overlap and no repeated entry
PageResultDisjointForTwo ==
    (pc = "merged" /\ examined <= 2) =>
        \A i, j \in 1..Len(result) :
            i # j => /\ ~Overlaps(result[i].Start, result[i].End,
                                  result[j].Start, result[j].End)
                     /\ result[i] # result[j]

(***************************************************************************)
(* match_courses_to_pages: the loops over the courses and the pages        *)
(***************************************************************************)
MaxPages == 2

MaxCourses == 2

\* pages without, with a close and with an exact occurrence of the courses
LowPages ==
    {<<"b", "b">>, <<"a", "a">>, <<"a", "b", "b", "a">>,
     <<"b", " ", "a", "-", "b", "b", "a">>,
     <<"a", " ", " ", "b", "b", "a">>}

LowCourses == {<<"a", "b", "b", "a">>, <<"a", "-", "b", "b", "a">>}

\* the length of the run of whitespace a string starts with
RECURSIVE SpaceRun(_)
SpaceRun(t) ==
    IF t = <<>> \/ ~IsSpace(Head(t)) THEN 0
    ELSE 1 + SpaceRun(Tail(t))

\* re.sub(r'\s{2,}', ' ', text); unidecode leaves ASCII text as it is
RECURSIVE preprocess_text(_)
preprocess_text(t) ==
    IF t = <<>> THEN <<>>
    ELSE IF SpaceRun(t) >= 2
         THEN <<" ">> \o preprocess_text(SubSeq(t, SpaceRun(t) + 1, Len(t)))
         ELSE <<Head(t)>> \o preprocess_text(Tail(t))

\* the matches of one page merged into the accepted matches of that page
RECURSIVE MergePage(_, _)
MergePage(st, found) ==
    IF found = <<>> THEN st
    ELSE IF Len(Head(found).Best) <= 3 THEN MergePage(st, Tail(found))
    ELSE LET merged == SeenLoop([st EXCEPT !.overlap = FALSE],
                                st.seen_courses, Head(found))
         IN  MergePage(IF merged.overlap THEN merged
                       ELSE [merged EXCEPT
                                !.seen_courses = Append(@, Head(found)),
                                !.result = Append(@, Head(found))],
                       Tail(found))

\* the low-confidence records of a call with their course and page
Tagged2(records, course, page) ==
    [i \in 1..Len(records) |->
        [Course |-> course, Page_number |-> page, Best |-> records[i].Best,
         Confidence |-> records[i].Confidence]]

\* the local name low_confidence_matches before its first assignment
Unbound == [bound |-> FALSE, records |-> <<>>]

InitLow ==
    /\ pc = "loaded"
    /\ page_text = <<>>
    /\ \E n \in 0..MaxPages : pages \in [1..n -> LowPages]
    /\ \E n \in 1..MaxCourses :
          \E names \in [1..n -> LowCourses] : course_names = SortByLen(names)
    /\ course_index = 1
    /\ page_number = 1
    /\ all_low_confidence_matches = <<>>
    /\ produced = {}
    /\ course_name = <<>>
    /\ course_list = {}
    /\ result = [p \in 1..Len(pages) |-> <<>>]
    /\ seen_courses = [p \in 1..Len(pages) |-> <<>>]
    /\ examined = 0
    /\ start_no_space = 0
    /\ end_no_space = 0
    /\ original = <<0, 0>>
    /\ positions = <<>>
    /\ searched = FALSE
    /\ low_confidence_matches = Unbound
    /\ course_variations = {}
    /\ errors_file = <<>>
    /\ NoAccessInput
    /\ NoInfoInput
    /\ NoResolveInput
    /\ NoGapInput
    /\ NoTrimInput
    /\ NoParInput
    /\ NoZtaInput

\* the body of the loop over the pages: the call of sliding_window_match for
\* the course and the page, and the merge of its matches into those of the
\* page
SearchPage ==
    /\ pc \in {"loaded", "searching"}
    /\ course_index <= Len(course_names)
    /\ page_number <= Len(pages)
    /\ \E course \in {course_names[course_index]} :
        \E iteration \in Orders(generate_course_variations(course)) :
          \E r \in {ExactPass(preprocess_text(pages[page_number]), course,
                              {course_names[i] : i \in 1..Len(course_names)},
                              iteration, iteration, {},
                              [result |-> <<>>, current_position |-> 0,
                               positions |-> <<0>>,
                               low_confidence_matches |-> <<>>,
                               fallback |-> FALSE, raised |-> ""])} :
             IF r.raised # ""
             THEN /\ raised' = r.raised
                  /\ pc' = "raised"
                  /\ UNCHANGED <<low_confidence_matches, produced, result,
                                 seen_courses, page_number>>
             ELSE /\ low_confidence_matches' =
                         [bound |-> TRUE,
                          records |-> Tagged2(r.low_confidence_matches, course,
                                              page_number)]
                  /\ produced' = produced \cup
                         {<<course_index, page_number, r.low_confidence_matches[i]>> :
                             i \in 1..Len(r.low_confidence_matches)}
                  /\ \E st \in {MergePage([seen_courses |->
                                                seen_courses[page_number],
                                            result |-> result[page_number],
                                            overlap |-> FALSE], r.result)} :
                        /\ seen_courses' =
                               [seen_courses EXCEPT ![page_number] =
                                                        st.seen_courses]
                        /\ result' = [result EXCEPT ![page_number] = st.result]
                  /\ page_number' = page_number + 1
                  /\ pc' = "searching"
                  /\ UNCHANGED raised
    /\ UNCHANGED <<page_text, varsResolve, varsGap, varsPar, varsZta, varsInfo,
                   course_variations, pages, course_names, course_index,
                   all_low_confidence_matches, course_name, course_list,
                   start_no_space, end_no_space, original, positions, searched,
                   best_match_text, best_trimmed_match, examined, errors_file,
                   varsAccess>>

\* after the loop over the pages: the low-confidence records the name
\* low_confidence_matches is bound to are added to the list, and the loop
\* over the courses moves on
EndCourse ==
    /\ pc \in {"loaded", "searching"}
    /\ course_index <= Len(course_names)
    /\ page_number > Len(pages)
    /\ IF ~low_confidence_matches.bound
       THEN /\ raised' = "UnboundLocalError"
            /\ pc' = "raised"
            /\ UNCHANGED <<all_low_confidence_matches, course_index,
                           page_number>>
       ELSE /\ all_low_confidence_matches' =
                   all_low_confidence_matches \o
                       low_confidence_matches.records
            /\ course_index' = course_index + 1
            /\ page_number' = 1
            /\ pc' = "searching"
            /\ UNCHANGED raised
    /\ UNCHANGED <<page_text, varsResolve, varsGap, varsPar, varsZta, varsInfo,
                   varsPages, course_variations, pages, course_names, produced,
                   course_name, course_list, result, start_no_space,
                   end_no_space, original, positions, searched,
                   low_confidence_matches, best_match_text,
                   best_trimmed_match, errors_file, varsAccess>>

\* return result, all_low_confidence_matches
ReturnMatches ==
    /\ pc \in {"loaded", "searching"}
    /\ course_index > Len(course_names)
    /\ pc' = "returned"
    /\ UNCHANGED <<page_text, varsResolve, varsMatch, varsGap, varsTrim, varsPar,
                   varsZta, varsPages, varsRest>>

NextLow == SearchPage \/ EndCourse \/ ReturnMatches

SpecLow == InitLow /\ [][NextLow]_vars

\* the record produced for a course and a page is in the returned list
Returned(rec) ==
    \E i \in 1..Len(all_low_confidence_matches) :
        /\ all_low_confidence_matches[i].Course = course_names[rec[1]]
        /\ all_low_confidence_matches[i].Page_number = rec[2]
        /\ all_low_confidence_matches[i].Best = rec[3].Best
        /\ all_low_confidence_matches[i].Confidence = rec[3].Confidence

\* C28: no call raises, and the low-confidence record produced for a course
\* and a page is in the low-confidence list returned, for every page of the
\* document and not only the last one
LowConfidenceRecorded ==
    /\ raised = ""
    /\ pc = "returned" => \A rec \in produced : Returned(rec)

\* the part of C28 that holds: the records produced for the last page of a
\* document are in the list returned
LowConfidenceOfLastPage ==
    pc = "returned" =>
        \A rec \in produced : rec[2] = Len(pages) => Returned(rec)

====
